---- MODULE Spec2Model ----
(***************************************************************************)
(* Dante Propiedades: the chat orchestrator (backend/main-ai.py and        *)
(* main.py), the LLM gateway (logic/gemini_client.py), the response        *)
(* shaper, the conversation log (backend/logic/database.py) and the        *)
(* contact store (app.py).                                                 *)
(*                                                                         *)
(* A text is a sequence of characters.  A character is a one-character     *)
(* string; a code point outside ASCII is written "U+XXXX", so that the     *)
(* length of a sequence is Python's len() of the string it stands for.     *)
(***************************************************************************)
EXTENDS Integers, Sequences, FiniteSets, TLC

(***************************************************************************)
(* Bounds of the model.                                                    *)
(***************************************************************************)
\* Conversation turns a server run may log before it takes no more requests.
MaxTurns == 1
\* Lines of an LLM text the shaper is explored on.
MaxLines == 3
MaxResults == 2
MaxClock == 1
\* Records of the feed the catalog is loaded from.
MaxFeed == 2
\* Calls of query_properties with one FilterSet.
MaxCalls == 2
\* Words of a text the extractor is explored on.
MaxWords == 2
\* Rows of table logs, and the limits a reader of it is called with.
MaxLog == 4
MaxLimit == 2
\* Calls of the gateway that run at once.
MaxWorkers == 2
\* Starts of the server on one database.
MaxStarts == 2

(***************************************************************************)
(* Python's str operations, on sequences of characters.                    *)
(***************************************************************************)
Min(S) == CHOOSE m \in S : \A n \in S : m <= n
Max(S) == CHOOSE m \in S : \A n \in S : m >= n

Digits == <<"0","1","2","3","4","5","6","7","8","9">>

\* str.isdigit() of one character.
IsDigit(c) == \E d \in 1..10 : Digits[d] = c

\* The characters str.strip() removes.
Whitespace == {" ", "\t", "\n", "\r"}

UpperCase ==
    <<"A","B","C","D","E","F","G","H","I","J","K","L","M","N","O","P","Q","R","S","T","U","V",
    "W","X","Y","Z","U+00C1","U+00C9","U+00CD","U+00D3","U+00DA","U+00D1">>
LowerCase ==
    <<"a","b","c","d","e","f","g","h","i","j","k","l","m","n","o","p","q","r","s","t","u","v",
    "w","x","y","z","U+00E1","U+00E9","U+00ED","U+00F3","U+00FA","U+00F1">>

\* The lower-case form of each upper-case letter.
UpperSet == {UpperCase[k] : k \in 1..Len(UpperCase)}

LowerChar(c) ==
    IF c \in UpperSet
    THEN LowerCase[CHOOSE k \in 1..Len(UpperCase) : UpperCase[k] = c]
    ELSE c

\* str.lower()
Lower(s) == [i \in 1..Len(s) |-> LowerChar(s[i])]

\* str.strip()
Strip(s) ==
    LET keep == {i \in 1..Len(s) : s[i] \notin Whitespace}
    IN  IF keep = {} THEN <<>> ELSE SubSeq(s, Min(keep), Max(keep))

\* sub in s
Contains(sub, s) ==
    \E i \in 1..(Len(s) - Len(sub) + 1) : \A j \in 1..Len(sub) : s[i + j - 1] = sub[j]

\* The position of the k-th newline of s; 0 for k = 0 and Len(s) + 1 past the last.
NewlineAt(s, k) ==
    LET nl == {i \in 1..Len(s) : s[i] = "\n"}
    IN  IF k = 0 THEN 0
        ELSE IF k > Cardinality(nl) THEN Len(s) + 1
        ELSE CHOOSE i \in nl : Cardinality({j \in nl : j < i}) = k - 1

\* s.split('\n')
Split(s) ==
    [k \in 1..(Cardinality({i \in 1..Len(s) : s[i] = "\n"}) + 1) |->
        SubSeq(s, NewlineAt(s, k - 1) + 1, NewlineAt(s, k) - 1)]

RECURSIVE Join(_)
\* '\n'.join(lines)
Join(lines) ==
    IF lines = <<>> THEN <<>>
    ELSE IF Len(lines) = 1 THEN lines[1]
    ELSE lines[1] \o <<"\n">> \o Join(Tail(lines))

RECURSIVE IntToText(_)
\* str(n) of a natural number
IntToText(n) ==
    IF n < 10 THEN <<Digits[n + 1]>>
    ELSE IntToText(n \div 10) \o <<Digits[(n % 10) + 1]>>

(***************************************************************************)
(* Fixed texts of the program.                                             *)
(***************************************************************************)
\* backend/main-ai.py line 261
MinAnswerLen == 20

WelcomeTemplate ==
    <<"U+00A1","H","o","l","a","!"," ","U+1F44B"," ","S","o","y"," ","t","u"," ","a","s","i",
    "s","t","e","n","t","e"," ","d","e"," ","D","a","n","t","e"," ","P","r","o","p","i","e","d",
    "a","d","e","s","."," ","\n","\n"," "," "," "," "," "," "," "," ","T","e"," ","a","y","u",
    "d","o"," ","a"," ","e","n","c","o","n","t","r","a","r"," ","l","a"," ","p","r","o","p","i",
    "e","d","a","d"," ","i","d","e","a","l","."," ","P","o","d","U+00E9","s",":","\n"," "," ",
    " "," "," "," "," "," ","U+2022"," ","U","s","a","r"," ","l","o","s"," ","f","i","l","t",
    "r","o","s"," ","a"," ","l","a"," ","i","z","q","u","i","e","r","d","a"," ","p","a","r","a",
    " ","b","U+00FA","s","q","u","e","d","a","s"," ","e","s","p","e","c","U+00ED","f","i","c",
    "a","s","\n"," "," "," "," "," "," "," "," ","U+2022"," ","C","o","n","t","a","r","m","e",
    " ","d","i","r","e","c","t","a","m","e","n","t","e"," ","q","u","U+00E9"," ","e","s","t",
    "U+00E1","s"," ","b","u","s","c","a","n","d","o","\n"," "," "," "," "," "," "," "," ",
    "U+2022"," ","P","r","e","g","u","n","t","a","r","m","e"," ","s","o","b","r","e"," ","p",
    "r","o","p","i","e","d","a","d","e","s"," ","q","u","e"," ","v","e","a","s","\n","\n"," ",
    " "," "," "," "," "," "," ","U+00BF","E","n"," ","q","u","U+00E9"," ","t","i","p","o"," ",
    "d","e"," ","p","r","o","p","i","e","d","a","d"," ","e","s","t","U+00E1","s"," ","i","n",
    "t","e","r","e","s","a","d","o"," ","h","o","y","?">>

FallbackText ==
    <<"U+1F916"," ","*","*","D","a","n","t","e"," ","P","r","o","p","i","e","d","a","d","e","s",
    "*","*","\n","\n","U+00A1","H","o","l","a","!"," ","L","a"," ","a","p","l","i","c","a","c",
    "i","U+00F3","n"," ","e","s","t","U+00E1"," ","f","u","n","c","i","o","n","a","n","d","o",
    " ","p","e","r","o"," ","h","a","y"," ","u","n"," ","p","r","o","b","l","e","m","a"," ","t",
    "e","m","p","o","r","a","l"," ","c","o","n"," ","e","l"," ","s","e","r","v","i","c","i","o",
    " ","d","e"," ","I","A",".","\n","\n","*","*","S","i","s","t","e","m","a"," ","d","i","s",
    "p","o","n","i","b","l","e",":","*","*","\n","U+2705"," ","B","U+00FA","s","q","u","e","d",
    "a"," ","d","e"," ","p","r","o","p","i","e","d","a","d","e","s","\n","U+2705"," ","F","i",
    "l","t","r","o","s"," ","p","o","r"," ","b","a","r","r","i","o",","," ","p","r","e","c","i",
    "o",","," ","t","i","p","o","\n","U+2705"," ","B","a","s","e"," ","d","e"," ","d","a","t",
    "o","s"," ","c","a","r","g","a","d","a","\n","\n","U+26A0","U+FE0F"," ","*","*","E","l"," ",
    "m","o","d","o"," ","c","o","n","v","e","r","s","a","c","i","o","n","a","l"," ","I","A"," ",
    "e","s","t","U+00E1"," ","t","e","m","p","o","r","a","l","m","e","n","t","e"," ","d","e",
    "s","a","c","t","i","v","a","d","o",".","*","*","\n","\n","*","*","C","U+00F3","m","o"," ",
    "u","s","a","r",":","*","*","\n","1","."," ","E","s","c","r","i","b","U+00ED"," ","t","u",
    " ","b","U+00FA","s","q","u","e","d","a"," ","(","e","j",":"," ","\"","d","e","p","a","r",
    "t","a","m","e","n","t","o"," ","e","n"," ","p","a","l","e","r","m","o","\"",")","\n","2",
    "."," ","L","a"," ","a","p","p"," ","e","n","c","o","n","t","r","a","r","U+00E1"," ","p",
    "r","o","p","i","e","d","a","d","e","s"," ","r","e","l","e","v","a","n","t","e","s","\n",
    "3","."," ","U","s","U+00E1"," ","l","o","s"," ","f","i","l","t","r","o","s"," ","p","a",
    "r","a"," ","r","e","f","i","n","a","r"," ","r","e","s","u","l","t","a","d","o","s","\n",
    "\n","U+1F3E0"," ","*","*","U+00A1","L","a"," ","b","U+00FA","s","q","u","e","d","a"," ",
    "d","e"," ","p","r","o","p","i","e","d","a","d","e","s"," ","f","u","n","c","i","o","n","a",
    " ","p","e","r","f","e","c","t","a","m","e","n","t","e","!","*","*">>

palabras_bienvenida ==
   <<
      <<"h","o","l","a">>,
      <<"h","i">>,
      <<"h","e","l","l","o">>,
      <<"b","u","e","n","a","s">>,
      <<"e","m","p","e","z","a","r">>,
      <<"i","n","i","c","i","o">>,
      <<"a","y","u","d","a">>
   >>

BARRIOS ==
   <<
      <<"P","a","r","q","u","e"," ","A","v","e","l","l","a","n","e","d","a">>,
      <<"B","o","e","d","o">>,
      <<"M","i","c","r","o","c","e","n","t","r","o">>,
      <<"P","i","l","a","r">>,
      <<"C","o","l","e","g","i","a","l","e","s">>,
      <<"P","a","l","e","r","m","o">>,
      <<"B","e","l","g","r","a","n","o">>,
      <<"R","e","c","o","l","e","t","a">>,
      <<"A","l","m","a","g","r","o">>,
      <<"V","i","l","l","a"," ","C","r","e","s","p","o">>,
      <<"S","a","n"," ","I","s","i","d","r","o">>,
      <<"V","i","c","e","n","t","e"," ","L","o","p","e","z">>
   >>

OPERACIONES ==
   <<
      <<"v","e","n","t","a">>,
      <<"a","l","q","u","i","l","e","r">>
   >>

TIPOS ==
   <<
      <<"c","a","s","a">>,
      <<"t","e","r","r","e","n","o">>,
      <<"d","e","p","a","r","t","a","m","e","n","t","o">>,
      <<"o","f","i","c","i","n","a">>,
      <<"p","h">>,
      <<"c","a","s","a","q","u","i","n","t","a">>
   >>

ListingEmoji ==
   <<
      <<"U+1F3E0">>,
      <<"U+1F4CD">>,
      <<"U+1F4B0">>,
      <<"U+1F4CB">>,
      <<"U+1F4AC">>
   >>

SynthPrefix ==
    <<"U+2705"," ","E","n","c","o","n","t","r","U+00E9"," ">>

SynthSuffix ==
    <<" ","p","r","o","p","i","e","d","a","d","e","s"," ","q","u","e"," ","c","o","i","n","c",
    "i","d","e","n"," ","c","o","n"," ","t","u"," ","b","U+00FA","s","q","u","e","d","a",".",
    " ","T","e"," ","l","a","s"," ","m","u","e","s","t","r","o"," ","a","b","a","j","o",":">>

AppendPrefix ==
    <<"\n","\n","U+1F4CA"," ","*","*","E","n","c","o","n","t","r","U+00E9"," ">>

AppendSuffix ==
    <<" ","p","r","o","p","i","e","d","a","d","e","s","*","*"," ","-"," ","T","e"," ","l","a",
    "s"," ","m","u","e","s","t","r","o"," ","e","n"," ","d","e","t","a","l","l","e"," ","a","b",
    "a","j","o"," ","U+1F447">>

W_propiedad ==
    <<"p","r","o","p","i","e","d","a","d">>

W_encontre ==
    <<"e","n","c","o","n","t","r","U+00E9">>

\* The text of the example of a listing followed by a closing sentence.
Ex_Listing ==
    <<"1","."," ","C","a","s","a"," ","e","n"," ","P","a","l","e","r","m","o"," ","U+1F3E0",
    "\n","2","."," ","P","H"," ","e","n"," ","B","o","e","d","o"," ","U+1F3E0","\n","\n",
    "U+00A1","M","i","r","U+00E1"," ","l","a","s"," ","o","p","c","i","o","n","e","s","!">>

Ex_Closing ==
    <<"U+00A1","M","i","r","U+00E1"," ","l","a","s"," ","o","p","c","i","o","n","e","s","!">>

Ex_Plain ==
    <<"T","e","n","g","o"," ","v","a","r","i","a","s"," ","o","p","c","i","o","n","e","s"," ",
    "p","a","r","a"," ","v","o","s",","," ","m","i","r","a","l","a","s"," ","a","b","a","j","o",
    ".">>

Ex_Upper ==
    <<"E","n","c","o","n","t","r","U+00E9"," ","o","p","c","i","o","n","e","s",","," ","m","i","r","a","l","a","s"," ","a","b","a","j","o",".">>

Ex_Found ==
    <<"U+00A1","P","e","r","f","e","c","t","o","!"," ","E","n","c","o","n","t","r","U+00E9"," ",
    "2"," ","p","r","o","p","i","e","d","a","d","e","s"," ","q","u","e"," ","c","o","i","n","c",
    "i","d","e","n",".">>

M_empty ==
    <<>>

M_blank ==
    <<" "," ">>

M_hola ==
    <<"h","o","l","a">>

M_depto ==
    <<"D","e","p","a","r","t","a","m","e","n","t","o"," ","e","n"," ","P","a","l","e","r","m",
    "o">>

M_gracias ==
    <<"g","r","a","c","i","a","s">>

V_casa ==
    <<"c","a","s","a">>

V_alquiler ==
    <<"a","l","q","u","i","l","e","r">>

ErrorDetail ==
    <<"O","c","u","r","r","i","U+00F3"," ","u","n"," ","e","r","r","o","r"," ","p","r","o","c",
    "e","s","a","n","d","o"," ","t","u"," ","c","o","n","s","u","l","t","a",".">>

EmptyDetail ==
    <<"E","l"," ","m","e","n","s","a","j","e"," ","n","o"," ","p","u","e","d","e"," ","e","s",
    "t","a","r"," ","v","a","c","U+00ED","o">>

Catalog ==
   <<
     [id_temporal |-> <<"p","1">>,
      titulo |-> <<"C","a","s","a"," ","e","n"," ","P","a","l","e","r","m","o">>,
      barrio |-> <<"P","a","l","e","r","m","o">>,
      precio |-> 250000,
      ambientes |-> 4,
      metros_cuadrados |-> 120,
      operacion |-> <<"v","e","n","t","a">>,
      tipo |-> <<"c","a","s","a">>],
     [id_temporal |-> <<"p","2">>,
      titulo |-> <<"P","H"," ","e","n"," ","B","o","e","d","o">>,
      barrio |-> <<"B","o","e","d","o">>,
      precio |-> 900,
      ambientes |-> 3,
      metros_cuadrados |-> 70,
      operacion |-> <<"a","l","q","u","i","l","e","r">>,
      tipo |-> <<"p","h">>],
     [id_temporal |-> <<"p","3">>,
      titulo |-> <<"D","e","p","t","o"," ","e","n"," ","P","a","l","e","r","m","o">>,
      barrio |-> <<"P","a","l","e","r","m","o">>,
      precio |-> 1200,
      ambientes |-> 2,
      metros_cuadrados |-> 65,
      operacion |-> <<"a","l","q","u","i","l","e","r">>,
      tipo |-> <<"d","e","p","a","r","t","a","m","e","n","t","o">>]
   >>
\* Lines an LLM text may be made of, and values of contact requests.
L_num1 ==
    <<"1","."," ","C","a","s","a"," ","e","n"," ","P","a","l","e","r","m","o"," ","U+1F3E0">>

L_num2 ==
    <<"2",")"," ","P","H"," ","e","n"," ","B","o","e","d","o">>

L_blank ==
    <<>>

L_price ==
    <<"U+1F4B0"," ","U","S","D"," ","1","0","0">>

L_days ==
    <<"7"," ","d","i","a","s"," ","d","e"," ","v","i","s","i","t","a">>

N_ana ==
    <<"A","n","a">>

N_bea ==
    <<"B","e","a">>

E_visto ==
    <<"v","i","s","t","o">>

E_nuevo ==
    <<"n","u","e","v","o">>

Ex_Confirm2 ==
    <<"U+2705"," ","E","n","c","o","n","t","r","U+00E9"," ","2"," ","p","r","o","p","i","e","d",
    "a","d","e","s"," ","q","u","e"," ","c","o","i","n","c","i","d","e","n"," ","c","o","n"," ",
    "t","u"," ","b","U+00FA","s","q","u","e","d","a","."," ","T","e"," ","l","a","s"," ","m",
    "u","e","s","t","r","o"," ","a","b","a","j","o",":">>

Ip_web ==
    <<"1","0",".","0",".","0",".","1">>
(***************************************************************************)
(* The response shaper: backend/main-ai.py, chat, lines 226-266.           *)
(***************************************************************************)
\* Line 239-241: a stripped line that opens a listing.
StartsListing(line_stripped) ==
    /\ line_stripped /= <<>>
    /\ IsDigit(line_stripped[1])
    /\ \/ Contains(<<".">>, line_stripped)
       \/ Contains(<<")">>, line_stripped)
       \/ Contains(<<"U+1F3E0">>, line_stripped)
       \/ Contains(<<"U+1F4CD">>, line_stripped)

\* The emoji test with the two emoji of line 241 alone.
HasHouseOrPinEmoji(line) ==
    Contains(<<"U+1F3E0">>, line) \/ Contains(<<"U+1F4CD">>, line)

\* Line 246: a line that carries one of the property emoji.
HasListingEmoji(line) ==
    \E e \in 1..Len(ListingEmoji) : Contains(ListingEmoji[e], line)

RECURSIVE CleanLines(_, _, _)
\* The loop body in which a line with a property emoji starts a listing too.
ShapeLineEmojiBlock(lines, i, skip_next_lines, line, line_stripped) ==
    IF StartsListing(line_stripped) \/ HasListingEmoji(line)
    THEN CleanLines(lines, i + 1, TRUE)
    ELSE IF skip_next_lines
    THEN CleanLines(lines, i + 1, ~(line_stripped = <<>> \/ i = Len(lines)))
    ELSE <<line>> \o CleanLines(lines, i + 1, FALSE)

\* Lines 237-255: the body of the loop for the i-th line; what is kept of
\* the lines from the i-th on.
ShapeLine(lines, i, skip_next_lines, line, line_stripped) ==
    IF StartsListing(line_stripped)
    THEN CleanLines(lines, i + 1, TRUE)
    ELSE IF HasListingEmoji(line)
    THEN CleanLines(lines, i + 1, skip_next_lines)
    ELSE IF skip_next_lines
    THEN CleanLines(lines, i + 1, ~(line_stripped = <<>> \/ i = Len(lines)))
    ELSE <<line>> \o CleanLines(lines, i + 1, FALSE)

\* Lines 235-255: the lines from the i-th on that are kept, given the
\* value of skip_next_lines before the i-th line.  The line and its
\* stripped form are bound as values, so that each is computed once.
CleanLines(lines, i, skip_next_lines) ==
    IF i > Len(lines) THEN <<>>
    ELSE CHOOSE kept \in
             {ShapeLine(lines, i, skip_next_lines, l.line, l.line_stripped) :
                 l \in {[line |-> line, line_stripped |-> Strip(line)] :
                           line \in {lines[i]}}} : TRUE

\* Line 262: the synthesized confirmation.
SynthConfirmation(n) == SynthPrefix \o IntToText(n) \o SynthSuffix

\* Line 266: the synthesized suffix.
SynthAppend(n) == AppendPrefix \o IntToText(n) \o AppendSuffix

\* The finalization without the minimum length of line 261.
FinalizeWithoutMinimum(answer, n) ==
    IF answer = <<>>
    THEN SynthConfirmation(n)
    ELSE IF /\ ~Contains(W_propiedad, Lower(answer))
            /\ ~Contains(W_encontre, Lower(answer))
         THEN answer \o SynthAppend(n)
         ELSE answer

\* The finalization that looks for the two words in the text as written.
FinalizeCaseSensitive(answer, n) ==
    IF answer = <<>> \/ Len(answer) < MinAnswerLen
    THEN SynthConfirmation(n)
    ELSE IF /\ ~Contains(W_propiedad, answer)
            /\ ~Contains(W_encontre, answer)
         THEN answer \o SynthAppend(n)
         ELSE answer

\* Lines 257-266: what becomes of the rejoined text, for n records.
Finalize(answer, n) ==
    IF answer = <<>> \/ Len(answer) < MinAnswerLen
    THEN SynthConfirmation(n)
    ELSE IF /\ ~Contains(W_propiedad, Lower(answer))
            /\ ~Contains(W_encontre, Lower(answer))
         THEN answer \o SynthAppend(n)
         ELSE answer

\* Lines 231-266: the shaping of the text the gateway returned, when the
\* query returned n > 0 records.  The split lines and the rejoined text are
\* bound as values, so that each is computed once.
ResponseShaper(answer, n) ==
    CHOOSE shaped \in
        {Finalize(cleaned, n) :
            cleaned \in {Strip(joined) :
                joined \in {Join(clean_lines) :
                    clean_lines \in {CleanLines(lines, 1, FALSE) :
                        lines \in {Split(answer)}}}}} : TRUE

(***************************************************************************)
(* FilterSet: a Python dict, as a function from the keys it holds.         *)
(***************************************************************************)
EmptyDict == [k \in {} |-> 0]

\* d[k] = v
Put(d, k, v) == [x \in (DOMAIN d) \cup {k} |-> IF x = k THEN v ELSE d[x]]

\* d.update(e): the values of e replace those of d.
DictUpdate(d, e) ==
    [x \in (DOMAIN d) \cup (DOMAIN e) |-> IF x \in DOMAIN e THEN e[x] ELSE d[x]]

(***************************************************************************)
(* The filter extractor: logic/filters.py, detect_filters.                 *)
(***************************************************************************)
\* The pieces of Python's re the patterns of detect_filters use.

\* s has the literal lit at position i.
HasAt(s, i, lit) ==
    /\ i >= 1
    /\ i + Len(lit) - 1 <= Len(s)
    /\ \A j \in 1..Len(lit) : s[i + j - 1] = lit[j]

\* The end of the longest stretch of characters of class C that starts at
\* i (i - 1 when s[i] is not in C).
RunEnd(s, i, C) ==
    IF \E j \in i..Len(s) : s[j] \notin C
    THEN Min({j \in i..Len(s) : s[j] \notin C}) - 1
    ELSE Len(s)

PriceChars == {"0","1","2","3","4","5","6","7","8","9","."}
DigitChars == {"0","1","2","3","4","5","6","7","8","9"}
\* [a-zA-Záéíóúñ\s]
BarrioChars ==
    {LowerCase[k] : k \in 1..26} \cup {UpperCase[k] : k \in 1..26}
    \cup {"U+00E1","U+00E9","U+00ED","U+00F3","U+00FA","U+00F1"} \cup Whitespace

\* Where \$?\s* ends when it starts at i: the position after an optional
\* "$" and the whitespace that follows.
AfterDollarSpace(s, i) ==
    LET j == IF HasAt(s, i, <<"$">>) THEN i + 1 ELSE i
    IN  RunEnd(s, j, Whitespace) + 1

\* \$?\s*([0-9\.]+) matched at i: the group, or <<>> when it does not match.
NumberAt(s, i) ==
    LET a == AfterDollarSpace(s, i)
        b == RunEnd(s, a, PriceChars)
    IN  IF a <= b THEN SubSeq(s, a, b) ELSE <<>>

\* re.search(lit + r"\$?\s*([0-9\.]+)", s): group 1 of the leftmost match.
NumberAfterLiteral(s, lit) ==
    LET at == {i \in 1..Len(s) : HasAt(s, i, lit) /\ NumberAt(s, i + Len(lit)) /= <<>>}
    IN  IF at = {} THEN <<>> ELSE NumberAt(s, Min(at) + Len(lit))

\* re.search(r"precio.*?\$?\s*([0-9\.]+)", s): '.' stops at a newline.
NumberAfterPrecio(s) ==
    LET lit == <<"p","r","e","c","i","o">>
        ok(i, j) == /\ HasAt(s, i, lit)
                    /\ j >= i + 6
                    /\ \A m \in (i + 6)..(j - 1) : s[m] /= "\n"
                    /\ NumberAt(s, j) /= <<>>
        at == {i \in 1..Len(s) : \E j \in i..(Len(s) + 1) : ok(i, j)}
    IN  IF at = {} THEN <<>>
        ELSE LET i == Min(at)
                 j == Min({m \in i..(Len(s) + 1) : ok(i, m)})
             IN  NumberAt(s, j)

CurrencyWords ==
    << <<"u","s","d">>, <<"d","U+00F3","l","a","r","e","s">>,
       <<"d","o","l","a","r","e","s">>, <<"p","e","s","o","s">> >>

\* re.search(r"\$?\s*([0-9\.]+)\s*(usd|dólares|dolares|pesos)", s)
NumberBeforeCurrency(s) ==
    LET starts == {a \in 1..Len(s) :
                     /\ s[a] \in PriceChars
                     /\ (a = 1 \/ s[a - 1] \notin PriceChars)
                     /\ LET b == RunEnd(s, a, PriceChars)
                            c == RunEnd(s, b + 1, Whitespace) + 1
                        IN  \E w \in 1..Len(CurrencyWords) : HasAt(s, c, CurrencyWords[w])}
    IN  IF starts = {} THEN <<>>
        ELSE SubSeq(s, Min(starts), RunEnd(s, Min(starts), PriceChars))

\* re.search(r"(\d+)\s*" + lit, s): group 1 of the leftmost match.
DigitsBefore(s, lit) ==
    LET starts == {a \in 1..Len(s) :
                     /\ s[a] \in DigitChars
                     /\ (a = 1 \/ s[a - 1] \notin DigitChars)
                     /\ LET b == RunEnd(s, a, DigitChars)
                            c == RunEnd(s, b + 1, Whitespace) + 1
                        IN  HasAt(s, c, lit)}
    IN  IF starts = {} THEN <<>>
        ELSE SubSeq(s, Min(starts), RunEnd(s, Min(starts), DigitChars))

\* re.search(lit + r"([a-zA-Záéíóúñ\s]+)", s), or with a final $ when
\* anchored: group 1 of the leftmost match.
BarrioAfter(s, lit, anchored) ==
    LET ok(i) == /\ HasAt(s, i, lit)
                 /\ i + Len(lit) <= Len(s)
                 /\ s[i + Len(lit)] \in BarrioChars
                 /\ (anchored => RunEnd(s, i + Len(lit), BarrioChars) = Len(s))
        at == {i \in 1..Len(s) : ok(i)}
    IN  IF at = {} THEN <<>>
        ELSE SubSeq(s, Min(at) + Len(lit), RunEnd(s, Min(at) + Len(lit), BarrioChars))

RECURSIVE DigitsValue(_)
\* int(ds) of a sequence of digits
DigitsValue(ds) ==
    IF ds = <<>> THEN 0
    ELSE 10 * DigitsValue(SubSeq(ds, 1, Len(ds) - 1))
         + ((CHOOSE d \in 1..10 : Digits[d] = ds[Len(ds)]) - 1)

\* group.replace('.', '')
WithoutDots(g) == SelectSeq(g, LAMBDA c : c /= ".")

\* The scan without its break: the last entry that occurs.
LastOccurring(vocabulary, text_lower) ==
    LET hits == {k \in 1..Len(vocabulary) : Contains(Lower(vocabulary[k]), text_lower)}
    IN  IF hits = {} THEN <<>> ELSE Lower(vocabulary[Max(hits)])

\* The first entry of the vocabulary, lower-cased, that occurs in the text;
\* <<>> when none does.
FirstOccurring(vocabulary, text_lower) ==
    LET hits == {k \in 1..Len(vocabulary) : Contains(Lower(vocabulary[k]), text_lower)}
    IN  IF hits = {} THEN <<>> ELSE Lower(vocabulary[Min(hits)])

\* Lines 15-35: the neighbourhood.
barrio_detectado(text_lower) ==
    LET direct == FirstOccurring(BARRIOS, text_lower)
        barrio_patterns ==
            << <<<<"e","n"," ">>, FALSE>>,
               <<<<"b","a","r","r","i","o"," ">>, FALSE>>,
               <<<<"z","o","n","a"," ">>, FALSE>>,
               <<<<"d","e"," ">>, TRUE>> >>
        potential(p) ==
            Lower(Strip(BarrioAfter(text_lower, barrio_patterns[p][1], barrio_patterns[p][2])))
        isBarrio(t) == \E k \in 1..Len(BARRIOS) : Lower(BARRIOS[k]) = t
        found == {p \in 1..Len(barrio_patterns) : isBarrio(potential(p))}
    IN  IF direct /= <<>> THEN direct
        ELSE IF found = {} THEN <<>>
        ELSE potential(Min(found))

\* Lines 53-69: the groups the price patterns capture, in pattern order.
precio_groups(text_lower) ==
    << NumberAfterLiteral(text_lower, <<"h","a","s","t","a"," ">>),
       NumberAfterLiteral(text_lower, <<"m","U+00E1","x","i","m","o"," ">>),
       NumberAfterPrecio(text_lower),
       NumberAfterLiteral(text_lower, <<"m","e","n","o","s"," ","d","e"," ">>),
       NumberBeforeCurrency(text_lower) >>

\* An int() that takes the empty text for 0.
ParsesAsZero(g) == TRUE

\* int() accepts the group once its dots are removed.
ParsesAsInt(g) == WithoutDots(g) /= <<>>

\* Lines 61-69: the group of the first pattern that matches and whose group
\* int() accepts; <<>> when there is none.
FirstParsing(groups) ==
    LET priced == {p \in 1..Len(groups) : groups[p] /= <<>> /\ ParsesAsInt(groups[p])}
    IN  IF priced = {} THEN <<>> ELSE groups[Min(priced)]

\* a or b, of two re.search results
FirstMatch(a, b) == IF a /= <<>> THEN a ELSE b

\* The dict detect_filters builds from what each category found (<<>> for a
\* category that found nothing).
FilterDict(barrio, tipo, operacion, max_group, min_group, rooms, sqm) ==
    LET has == [neighborhood |-> barrio /= <<>>,
                tipo         |-> tipo /= <<>>,
                operacion    |-> operacion /= <<>>,
                max_price    |-> max_group /= <<>>,
                min_price    |-> min_group /= <<>> /\ ParsesAsInt(min_group),
                min_rooms    |-> rooms /= <<>>,
                min_sqm      |-> sqm /= <<>>]
    IN  [k \in {x \in DOMAIN has : has[x]} |->
            CASE k = "neighborhood" -> barrio
              [] k = "tipo"         -> tipo
              [] k = "operacion"    -> operacion
              [] k = "max_price"    -> DigitsValue(WithoutDots(max_group))
              [] k = "min_price"    -> DigitsValue(WithoutDots(min_group))
              [] k = "min_rooms"    -> DigitsValue(rooms)
              [] k = "min_sqm"      -> DigitsValue(sqm)]

\* Lines 6-90.
detect_filters(text_lower) ==
    FilterDict(barrio_detectado(text_lower),
               FirstOccurring(TIPOS, text_lower),
               FirstOccurring(OPERACIONES, text_lower),
               FirstParsing(precio_groups(text_lower)),
               NumberAfterLiteral(text_lower, <<"d","e","s","d","e"," ">>),
               FirstMatch(DigitsBefore(text_lower, <<"a","m","b">>),
                          DigitsBefore(text_lower, <<"a","m","b","i","e","n","t","e">>)),
               FirstMatch(DigitsBefore(text_lower, <<"m","2">>),
                          DigitsBefore(text_lower, <<"m","e","t","r","o","s">>)))

(***************************************************************************)
(* State.                                                                  *)
(***************************************************************************)
VARIABLES
    API_KEYS,      \* gemini_client.API_KEYS: the credentials, in declaration order
    genai_key,     \* the credential genai.configure() set last, process-wide
    properties,    \* the rows of table properties, in rowid order
    logs,          \* the rows of table logs, in id order
    pc,            \* where the chat request in flight stands
    request,       \* the chat request in flight
    frame,         \* the locals of chat() for the request in flight
    gw,            \* the locals of call_gemini_with_rotation() for that request
    response,      \* the response of the chat endpoint to that request
    shaper,        \* a text under shaping: the text, the record count, the reply
    contactos,     \* the rows of table contactos, which timestamp identifies
    clock,         \* the wall clock, in milliseconds
    submission,    \* the last contact request and the response to it
    feed,          \* propiedades.json: the records of the feed, in file order
    lookup,        \* a FilterSet and what the calls of query_properties with it returned
    extraction,    \* a text and the FilterSet detect_filters returned for it
    history,       \* the last read of table logs: the call and what it returned
    workers        \* the locals of the calls of call_gemini_with_rotation() that run at once

chatVars    == <<API_KEYS, genai_key, properties, logs, pc, request, frame, gw, response>>
contactVars == <<contactos, clock, submission>>
catalogVars == <<feed, lookup, extraction, history, workers>>
vars        == <<API_KEYS, genai_key, properties, logs, pc, request, frame, gw, response,
                 shaper, contactos, clock, submission, feed, lookup, extraction,
                 history, workers>>

\* Python's None and a present value.
None    == <<>>
Some(v) == <<v>>

(***************************************************************************)
(* The catalog store: backend/logic/database.py, query_properties.         *)
(***************************************************************************)
\* SQLite's LIKE folds the case of ASCII letters only.
LikeFold(s) ==
    [i \in 1..Len(s) |->
        IF \E k \in 1..26 : UpperCase[k] = s[i] THEN LowerChar(s[i]) ELSE s[i]]

\* barrio LIKE '%v%'
Like(barrio, v) == Contains(LikeFold(v), LikeFold(barrio))

\* 'k' in filters and filters[k], for a text and for a number
TextFilter(filters, k) == k \in DOMAIN filters /\ filters[k] /= <<>>
NumFilter(filters, k)  == k \in DOMAIN filters /\ filters[k] /= 0

\* Lines 257-287: the WHERE clause.
RowMatches(row, filters) ==
    /\ TextFilter(filters, "neighborhood") => Like(row.barrio, filters["neighborhood"])
    /\ TextFilter(filters, "barrio") => Like(row.barrio, filters["barrio"])
    /\ NumFilter(filters, "min_price") => row.precio >= filters["min_price"]
    /\ NumFilter(filters, "max_price") => row.precio <= filters["max_price"]
    /\ NumFilter(filters, "min_rooms") => row.ambientes >= filters["min_rooms"]
    /\ TextFilter(filters, "operacion") => row.operacion = filters["operacion"]
    /\ TextFilter(filters, "tipo") => row.tipo = filters["tipo"]
    /\ NumFilter(filters, "min_sqm") => row.metros_cuadrados >= filters["min_sqm"]
    /\ NumFilter(filters, "max_sqm") => row.metros_cuadrados <= filters["max_sqm"]

RECURSIVE OrderByRowid(_, _)
\* The SELECT without its ORDER BY: the rows in rowid order.
OrderByRowid(table, idx) ==
    IF idx = {} THEN <<>>
    ELSE LET first == CHOOSE i \in idx : \A j \in idx : i <= j
         IN  <<table[first]>> \o OrderByRowid(table, idx \ {first})

RECURSIVE OrderByPrecio(_, _)
\* Line 289: ORDER BY precio ASC over the rows at positions idx of table;
\* rows of equal price come in rowid order.
OrderByPrecio(table, idx) ==
    IF idx = {} THEN <<>>
    ELSE LET first == CHOOSE i \in idx : \A j \in idx :
                          \/ table[i].precio < table[j].precio
                          \/ (table[i].precio = table[j].precio /\ i <= j)
         IN  <<table[first]>> \o OrderByPrecio(table, idx \ {first})

\* Lines 294-304: a row as query_properties returns it, its JSON columns
\* parsed.  The rows of Catalog are written without these columns.
ParsedRow(row) == IF "fotos" \in DOMAIN row THEN [row EXCEPT !.fotos = @.json] ELSE row

\* Lines 256-304: the rows the SELECT yields, as dicts.
SelectRows(filters, table) ==
    LET rows == OrderByPrecio(table, {i \in 1..Len(table) : RowMatches(table[i], filters)})
    IN  [i \in 1..Len(rows) |-> ParsedRow(rows[i])]

\* The call whose handler (lines 309-311) is missing: a failure of the
\* store raises to the caller.
query_properties_unhandled(filters, table, db_ok) ==
    [rows   |-> IF db_ok THEN SelectRows(filters, table) ELSE <<>>,
     raised |-> ~db_ok]

\* Lines 247-311: the rows the call returns and whether it raises to its
\* caller.  A failure of the store (db_ok is FALSE) reaches the handler of
\* lines 309-311, which returns [].
query_properties(filters, table, db_ok) ==
    [rows   |-> IF db_ok THEN SelectRows(filters, table) ELSE <<>>,
     raised |-> FALSE]

(***************************************************************************)
(* The conversation log: backend/logic/database.py, log_conversation.      *)
(***************************************************************************)
\* Lines 384-409: one row more; the timestamp and the response time are
\* wall-clock readings and are left out of the row.
LogRow(user_message, bot_response, channel, search_performed, results_count) ==
    [channel          |-> channel,
     user_message     |-> user_message,
     bot_response     |-> bot_response,
     search_performed |-> search_performed,
     results_count    |-> results_count]

\* The turn of an earlier run that a server run may find in conversation_logs.db.
PersistedTurn == LogRow(<<"a","y","e","r">>, <<"o","k">>, "whatsapp", FALSE, 0)

\* The turns this run has logged.
TurnsOfRun(table) == Cardinality({i \in 1..Len(table) : table[i] /= PersistedTurn})

\* An append that starts the table anew.
log_conversation_truncating(table, row, log_ok) ==
    [table  |-> IF log_ok THEN <<row>> ELSE table,
     raised |-> FALSE]

\* The call whose handler (lines 411-412) is missing: a failed append
\* raises to the caller.
log_conversation_unhandled(table, row, log_ok) ==
    [table  |-> IF log_ok THEN Append(table, row) ELSE table,
     raised |-> ~log_ok]

\* Lines 380-412: the table after the call and whether the call raises to
\* its caller.  A failed append (log_ok is FALSE) reaches the handler of
\* lines 411-412, which prints it.
log_conversation(table, row, log_ok) ==
    [table  |-> IF log_ok THEN Append(table, row) ELSE table,
     raised |-> FALSE]

(***************************************************************************)
(* The LLM gateway: logic/gemini_client.py.                                *)
(***************************************************************************)
\* Line 12: range(1, 4), the environment variables GEMINI_API_KEY_1..3.
KeySlots == 3

\* Lines 11-17: the credentials that are set, in the order of their slots.
RECURSIVE LoadKeys(_, _)
LoadKeys(env, slot) ==
    IF slot > KeySlots THEN <<>>
    ELSE (IF slot \in env THEN <<slot>> ELSE <<>>) \o LoadKeys(env, slot + 1)

\* What one completion attempt may meet: a response with content, an
\* exception of generate_content, a response with zero parts, or a call
\* that never returns.
LlmTexts == {Ex_Listing, Ex_Plain}
Outcomes ==
    {[kind |-> "ok", text |-> t] : t \in LlmTexts}
    \cup {[kind |-> k, text |-> <<>>] : k \in {"error", "empty", "hang"}}

\* Line 91-93.
get_fallback_response == FallbackText

\* The loop body with the Exception of line 59 raised outside the try
\* block: a response without parts escapes the call.
AttemptResultEmptyEscapes(outcome) ==
    IF outcome.kind = "ok"
    THEN [kind |-> "return", text |-> Strip(outcome.text)]
    ELSE IF outcome.kind = "empty"
    THEN [kind |-> "raise", text |-> <<>>]
    ELSE [kind |-> "continue", text |-> <<>>]

\* Lines 35-86: the body of the loop for an attempt that came back.  An
\* exception of the call and the Exception raised for a response without
\* parts (line 59) both reach the handler of line 66, which goes on to the
\* next credential.
AttemptResult(outcome) ==
    IF outcome.kind = "ok"
    THEN [kind |-> "return", text |-> Strip(outcome.text)]
    ELSE [kind |-> "continue", text |-> <<>>]

\* The loop giving up after its first failed attempt.
ExhaustedAfterFirst(i, keys) == i >= 1

\* Line 34: the for loop has no credential after the i-th.
Exhausted(i, keys) == i >= Len(keys)

IdleGw ==
    [calls |-> 0, i |-> 0, attempts |-> 0, outcome |-> [kind |-> "none", text |-> <<>>],
     failed |-> 0, result |-> [kind |-> "none", text |-> <<>>]]

\* Line 24: the call starts; i is the position of the next credential.
GatewayEntered == [IdleGw EXCEPT !.calls = 1, !.i = 1]

(***************************************************************************)
(* The chat orchestrator of backend/main-ai.py.                            *)
(***************************************************************************)
IdleRequest ==
    [message |-> <<>>, channel |-> "web", filters |-> EmptyDict, contexto_anterior |-> FALSE]
\* The locals of chat(); db_ok is whether the store answered the query, and
\* raised the exception on its way to the handler of the try block.
IdleFrame ==
    [user_text |-> <<>>, detected_filters |-> EmptyDict, filters |-> EmptyDict,
     search_performed |-> FALSE, results |-> None, db_ok |-> TRUE, raised |-> None]
\* The response, and what became of the request: whether log_conversation
\* was called (logged) and appended (log_ok), the exception the handler
\* caught (raised) and the one the steps of chat() ran into (fault).
NoResponse ==
    [status |-> 0, response |-> <<>>, results_count |-> None, search_performed |-> FALSE,
     propiedades |-> None, detail |-> <<>>, logged |-> FALSE, log_ok |-> TRUE,
     raised |-> None, fault |-> None]

\* The requests explored.
Messages        == {M_empty, M_blank, M_hola, M_depto, M_gracias}
Channels        == {"web", "whatsapp"}
FrontendFilters == {EmptyDict, Put(Put(EmptyDict, "tipo", V_casa), "operacion", V_alquiler)}

\* Line 143: message has min_length=1 (max_length=1000 is beyond the texts
\* explored).
ChatRequestValid(message) == Len(message) >= 1

\* Lines 175-178: the explicit filters, then the detected ones.
MergeFilters(filters_from_frontend, detected_filters) ==
    DictUpdate(filters_from_frontend, detected_filters)

\* Line 207-208.
es_saludo_inicial(text_lower, contexto_anterior) ==
    /\ \E p \in 1..Len(palabras_bienvenida) : Contains(palabras_bienvenida[p], text_lower)
    /\ ~contexto_anterior

\* len(results) if results else 0
CountOf(results) == IF results = None THEN 0 ELSE Len(results[1])

\* Lines 290-293: the response of the handler of the try block.
ErrorResponse == [NoResponse EXCEPT !.status = 500, !.detail = ErrorDetail]

\* The exceptions a step of chat() may run into, by type name, and what
\* sqlite3 raises.
Exceptions == {<<"K","e","y","E","r","r","o","r">>}
Faults     == {None} \cup {Some(e) : e \in Exceptions}
StoreError == <<"O","p","e","r","a","t","i","o","n","a","l","E","r","r","o","r">>
HTTPException == <<"H","T","T","P","E","x","c","e","p","t","i","o","n">>

\* A handler that hands the exception's type to the caller.
HandleExceptionLeaking(e) == [ErrorResponse EXCEPT !.raised = Some(e), !.detail = e]

\* Lines 290-293 (main.py, lines 300-302): the handler of every Exception
\* raised in the try block prints e and answers with the fixed message.
HandleException(e) == [ErrorResponse EXCEPT !.raised = Some(e)]

\* Lines 268-288: the turn is logged and the response is built, unless a
\* step raises (late, after the call of log_conversation).
ChatAiReply(fr, channel, answer, log_ok, late) ==
    \E written \in {log_conversation(logs, LogRow(fr.user_text, answer, channel,
                                                  fr.search_performed, CountOf(fr.results)),
                                      log_ok)} :
       /\ logs' = written.table
       /\ response' =
             IF written.raised
             THEN [HandleException(StoreError) EXCEPT !.logged = TRUE, !.log_ok = log_ok]
             ELSE IF late /= None
             THEN [HandleException(late[1]) EXCEPT !.logged = TRUE, !.log_ok = log_ok,
                                                   !.fault = late]
             ELSE [status           |-> 200,
                   response         |-> answer,
                   results_count    |-> IF fr.results /= None
                                        THEN Some(Len(fr.results[1])) ELSE None,
                   search_performed |-> fr.search_performed,
                   propiedades      |-> fr.results,
                   detail           |-> <<>>,
                   logged           |-> TRUE,
                   log_ok           |-> log_ok,
                   raised           |-> None,
                   fault            |-> None]

\* The query run whether or not there are filters.
SearchFrameAlways(user_text, detected_filters, filters, table, db_ok) ==
    [user_text        |-> user_text,
     detected_filters |-> detected_filters,
     filters          |-> filters,
     search_performed |-> DOMAIN filters /= {},
     results          |-> Some(query_properties(filters, table, db_ok).rows),
     db_ok            |-> db_ok,
     raised           |-> None]

\* Lines 175-193: the locals of chat() once the filters are merged and the
\* query, if any, has run.
SearchFrame(user_text, detected_filters, filters, table, db_ok) ==
    CHOOSE fr \in {[user_text        |-> user_text,
                    detected_filters |-> detected_filters,
                    filters          |-> filters,
                    search_performed |-> DOMAIN filters /= {},
                    results          |-> IF DOMAIN filters /= {} THEN Some(found.rows) ELSE None,
                    db_ok            |-> DOMAIN filters = {} \/ db_ok,
                    raised           |-> IF DOMAIN filters /= {} /\ found.raised
                                         THEN Some(StoreError) ELSE None] :
                      found \in {query_properties(filters, table, db_ok)}} : TRUE

MergedFrame(user_text, filters_from_frontend, detected_filters, table, db_ok) ==
    SearchFrame(user_text, detected_filters,
                MergeFilters(filters_from_frontend, detected_filters), table, db_ok)

\* Lines 206-224: the welcome of a first greeting, or the call of the
\* gateway; an exception raised on the way goes to the handler.
chat_ai_answer(fr, saludo, channel, log_ok, late) ==
    IF fr.raised /= None
    THEN /\ frame' = fr
         /\ response' = [HandleException(fr.raised[1]) EXCEPT
                            !.fault = IF fr.raised[1] \in Exceptions THEN fr.raised ELSE None]
         /\ pc' = "done"
         /\ UNCHANGED <<gw, logs>>
    ELSE IF saludo
    THEN /\ frame' = fr
         /\ ChatAiReply(fr, channel, WelcomeTemplate, log_ok, late)
         /\ pc' = "done"
         /\ UNCHANGED gw
    ELSE /\ frame' = fr
         /\ gw' = GatewayEntered
         /\ pc' = "gateway"
         /\ UNCHANGED <<response, logs>>

\* Lines 165-224: the try block, up to the call of the gateway.
chat_ai_try(user_text, detected_filters, channel, filters_from_frontend, contexto_anterior, early, db_ok, log_ok, late) ==
    IF user_text = <<>>
    THEN \* line 168 raises HTTPException(400) inside the try block, and
         \* HTTPException is an Exception: the handler of line 290 catches it
         /\ response' = HandleException(HTTPException)
         /\ pc' = "done"
         /\ frame' = IdleFrame
         /\ UNCHANGED <<gw, logs>>
    ELSE \E fr \in {MergedFrame(user_text, filters_from_frontend, detected_filters,
                                 properties, db_ok)} :
            chat_ai_answer([fr EXCEPT !.raised = IF early /= None THEN early ELSE @],
                           es_saludo_inicial(Lower(user_text), contexto_anterior),
                           channel, log_ok, late)

\* Lines 160-224: a request arrives and is handled up to the call of the
\* gateway; a request that needs no completion is answered here.
chat_ai_begin ==
    /\ pc = "idle"
    /\ TurnsOfRun(logs) < MaxTurns
    /\ \E message \in Messages :
       \E detected_filters \in {detect_filters(Lower(Strip(message)))},
          channel \in Channels,
          filters_from_frontend \in FrontendFilters, contexto_anterior \in BOOLEAN,
          early \in Faults, db_ok \in BOOLEAN, log_ok \in BOOLEAN, late \in Faults :
          /\ request' = [message |-> message, channel |-> channel,
                         filters |-> filters_from_frontend,
                         contexto_anterior |-> contexto_anterior]
          /\ IF ~ChatRequestValid(message)
             THEN \* rejected by the request model before chat() runs
                  /\ response' = [NoResponse EXCEPT !.status = 422]
                  /\ pc' = "done"
                  /\ UNCHANGED <<frame, gw, logs>>
             ELSE chat_ai_try(Strip(message), detected_filters, channel,
                              filters_from_frontend, contexto_anterior,
                              early, db_ok, log_ok, late)
    /\ UNCHANGED <<API_KEYS, genai_key, properties>>
    /\ UNCHANGED <<shaper, contactVars, catalogVars>>

\* Lines 30-32: no credential is configured.
gemini_no_keys ==
    /\ pc = "gateway"
    /\ API_KEYS = <<>>
    /\ gw' = [gw EXCEPT !.result = [kind |-> "return", text |-> get_fallback_response]]
    /\ pc' = "returned"
    /\ UNCHANGED <<API_KEYS, genai_key, properties, logs, request, frame, response>>
    /\ UNCHANGED <<shaper, contactVars, catalogVars>>

\* Lines 34-54: the next credential is configured and the completion
\* request is sent.
gemini_send ==
    /\ pc = "gateway"
    /\ gw.i <= Len(API_KEYS)
    /\ \E outcome \in Outcomes :
          gw' = [gw EXCEPT !.outcome = outcome, !.attempts = @ + 1]
    /\ genai_key' = API_KEYS[gw.i]
    /\ pc' = "waiting"
    /\ UNCHANGED <<API_KEYS, properties, logs, request, frame, response>>
    /\ UNCHANGED <<shaper, contactVars, catalogVars>>

\* The loop that tries the credential again after a failure.
AfterAttemptRetrying(g, step, keys) ==
    IF step.kind = "continue" /\ g.failed < Len(keys)
    THEN [g EXCEPT !.failed = @ + 1]
    ELSE IF step.kind = "continue"
    THEN [g EXCEPT !.result = [kind |-> "return", text |-> get_fallback_response]]
    ELSE [g EXCEPT !.result = step]

\* What the call has come to once the attempt on the i-th credential ended
\* with step: the next credential, the completion, or the fallback.
AfterAttempt(g, step, keys) ==
    IF step.kind = "continue" /\ ~Exhausted(g.i, keys)
    THEN [g EXCEPT !.i = @ + 1, !.failed = @ + 1]
    ELSE IF step.kind = "continue"
    THEN [g EXCEPT !.failed = @ + 1,
                   !.result = [kind |-> "return", text |-> get_fallback_response]]
    ELSE [g EXCEPT !.result = step]

\* Lines 56-89: the completion call comes back, and the loop goes on to the
\* next credential, returns the completion, or ends with the fallback.
gemini_receive ==
    /\ pc = "waiting"
    /\ gw.outcome.kind /= "hang"
    /\ gw' = AfterAttempt(gw, AttemptResult(gw.outcome), API_KEYS)
    /\ pc' = IF gw'.result.kind = "none" THEN "gateway" ELSE "returned"
    /\ UNCHANGED <<API_KEYS, genai_key, properties, logs, request, frame, response>>
    /\ UNCHANGED <<shaper, contactVars, catalogVars>>

\* The text chat() goes on with: the gateway's, shaped when the query
\* returned records (lines 226-266).
AnswerOf(fr, text) ==
    IF fr.results /= None /\ Len(fr.results[1]) > 0
    THEN ResponseShaper(text, Len(fr.results[1]))
    ELSE text

\* Lines 224-288: the gateway came back; the rest of chat().  The shaping
\* may raise (early) before the turn is logged, the steps after it later.
chat_ai_resume ==
    /\ pc = "returned"
    /\ \E answer \in {AnswerOf(frame, gw.result.text)} :
       \E early \in Faults, log_ok \in BOOLEAN, late \in Faults :
          IF gw.result.kind = "raise"
          THEN /\ response' = HandleException(gw.result.text)
               /\ UNCHANGED logs
          ELSE IF early /= None
          THEN /\ response' = [HandleException(early[1]) EXCEPT !.fault = early]
               /\ UNCHANGED logs
          ELSE ChatAiReply(frame, request.channel, answer, log_ok, late)
    /\ pc' = "done"
    /\ UNCHANGED <<API_KEYS, genai_key, properties, request, frame, gw>>
    /\ UNCHANGED <<shaper, contactVars, catalogVars>>

\* The response is delivered and the request's locals are gone.
chat_deliver ==
    /\ pc = "done"
    /\ pc' = "idle"
    /\ request' = IdleRequest
    /\ frame' = IdleFrame
    /\ gw' = IdleGw
    /\ response' = NoResponse
    /\ UNCHANGED <<API_KEYS, genai_key, properties, logs>>
    /\ UNCHANGED <<shaper, contactVars, catalogVars>>

(***************************************************************************)
(* The chat endpoint of main.py (/api/chat).  It imports                   *)
(* logic.database, which the repository's backend/logic/database.py        *)
(* provides: query_properties and log_conversation are the ones above.     *)
(***************************************************************************)
\* Line 258: not data or not data.get('message')
FlaskMessagePresent(message) == message /= <<>>

\* Lines 253-286: a request arrives and is handled up to the call of the
\* gateway, which every request with a message reaches.
chat_flask_begin ==
    /\ pc = "idle"
    /\ TurnsOfRun(logs) < MaxTurns
    /\ \E message \in Messages :
       \E detected_filters \in {detect_filters(Lower(Strip(message)))},
          channel \in Channels,
          filters_from_frontend \in FrontendFilters, contexto_anterior \in BOOLEAN,
          early \in Faults, db_ok \in BOOLEAN :
          /\ request' = [message |-> message, channel |-> channel,
                         filters |-> filters_from_frontend,
                         contexto_anterior |-> contexto_anterior]
          /\ IF ~FlaskMessagePresent(message)
             THEN /\ response' = [NoResponse EXCEPT !.status = 400, !.detail = EmptyDetail]
                  /\ pc' = "done"
                  /\ UNCHANGED <<frame, gw, logs>>
             ELSE \E fr \in {MergedFrame(Strip(message), filters_from_frontend,
                                          detected_filters, properties, db_ok)} :
                     /\ frame' = [fr EXCEPT !.raised = IF early /= None THEN early ELSE @]
                     /\ IF frame'.raised /= None
                        THEN /\ response' =
                                   [HandleException(frame'.raised[1]) EXCEPT
                                       !.fault = IF frame'.raised[1] \in Exceptions
                                                 THEN frame'.raised ELSE None]
                             /\ pc' = "done"
                             /\ UNCHANGED <<gw, logs>>
                        ELSE /\ gw' = GatewayEntered
                             /\ pc' = "gateway"
                             /\ UNCHANGED <<response, logs>>
    /\ UNCHANGED <<API_KEYS, genai_key, properties>>
    /\ UNCHANGED <<shaper, contactVars, catalogVars>>

\* Lines 286-302: the gateway came back; the rest of chat().
chat_flask_resume ==
    /\ pc = "returned"
    /\ \E log_ok \in BOOLEAN, late \in Faults :
          IF gw.result.kind = "raise"
          THEN /\ response' = HandleException(gw.result.text)
               /\ UNCHANGED logs
          ELSE ChatAiReply(frame, request.channel, gw.result.text, log_ok, late)
    /\ pc' = "done"
    /\ UNCHANGED <<API_KEYS, genai_key, properties, request, frame, gw>>
    /\ UNCHANGED <<shaper, contactVars, catalogVars>>

(***************************************************************************)
(* The response shaper on its own, over the texts an LLM may return.       *)
(***************************************************************************)
ShaperLines == {L_num1, L_num2, L_blank, L_price, L_days, Ex_Closing, Ex_Plain}

ShaperTexts ==
    {Join(ls) : ls \in UNION {[1..k -> ShaperLines] : k \in 0..MaxLines}}
    \cup {Ex_Listing, Ex_Found, Ex_Upper, FallbackText}

NoShaper == [answer |-> <<>>, results_count |-> 0, reply |-> None]

\* backend/main-ai.py, lines 226-266, for a text and len(results) records.
shape_response ==
    /\ shaper.results_count > 0
    /\ shaper.reply = None
    /\ shaper' = [shaper EXCEPT
                     !.reply = Some(ResponseShaper(shaper.answer, shaper.results_count))]
    /\ UNCHANGED <<chatVars, contactVars, catalogVars>>

(***************************************************************************)
(* The contact store and its endpoints: app.py.                            *)
(***************************************************************************)
\* datos.get(k)
Get(datos, k) == IF k \in DOMAIN datos THEN datos[k] ELSE None

\* datos.get(k, default)
GetOr(datos, k, default) == IF k \in DOMAIN datos THEN datos[k] ELSE default

\* The INSERT without its ON CONFLICT clause, on a table without the
\* UNIQUE constraint: every call adds a row.
storage_guardar_sin_conflicto(table, datos, now, db_ok) ==
    IF ~db_ok \/ Get(datos, "timestamp") = None \/ Get(datos, "nombre") = None
    THEN [ok |-> FALSE, table |-> table]
    ELSE [ok    |-> TRUE,
          table |-> table \cup {[timestamp           |-> datos["timestamp"],
                                 nombre              |-> datos["nombre"],
                                 estado              |-> GetOr(datos, "estado", E_nuevo),
                                 fecha_actualizacion |-> now]}]

\* Lines 103-143.  The columns email, telefono and notas are written and
\* overwritten like estado; ip_address, user_agent and fecha_creacion are
\* written by the INSERT alone, and so is id, which nothing reads.
storage_guardar_contacto(table, datos, now, db_ok) ==
    IF ~db_ok
    THEN [ok |-> FALSE, table |-> table]
    ELSE IF Get(datos, "timestamp") = None \/ Get(datos, "nombre") = None
    THEN \* NOT NULL is violated: the except branch of line 141
         [ok |-> FALSE, table |-> table]
    ELSE IF \E c \in table : c.timestamp = datos["timestamp"]
    THEN \* ON CONFLICT (timestamp) DO UPDATE
         [ok    |-> TRUE,
          table |-> {IF c.timestamp = datos["timestamp"]
                     THEN [c EXCEPT !.nombre = datos["nombre"],
                                    !.estado = GetOr(datos, "estado", E_nuevo),
                                    !.fecha_actualizacion = now]
                     ELSE c : c \in table}]
    ELSE [ok    |-> TRUE,
          table |-> table \cup {[timestamp           |-> datos["timestamp"],
                                 nombre              |-> datos["nombre"],
                                 estado              |-> GetOr(datos, "estado", E_nuevo),
                                 fecha_actualizacion |-> now]}]

\* Lines 191-226.
storage_actualizar_contacto(table, timestamp, datos_actualizados, now, db_ok) ==
    IF ~db_ok THEN [ok |-> FALSE, table |-> table]
    ELSE IF DOMAIN datos_actualizados \cap {"nombre", "estado"} = {}
    THEN [ok |-> TRUE, table |-> table]
    ELSE [ok    |-> TRUE,
          table |-> {IF c.timestamp = timestamp
                     THEN [c EXCEPT !.nombre = GetOr(datos_actualizados, "nombre", @),
                                    !.estado = GetOr(datos_actualizados, "estado", @),
                                    !.fecha_actualizacion = now]
                     ELSE c : c \in table}]

\* Lines 228-246.
storage_eliminar_contacto(table, timestamp, db_ok) ==
    IF ~db_ok THEN [ok |-> FALSE, table |-> table]
    ELSE [ok    |-> \E c \in table : c.timestamp = timestamp,
          table |-> {c \in table : c.timestamp /= timestamp}]

\* Lines 248-268.
storage_limpiar_todos_contactos(table, db_ok) ==
    IF ~db_ok THEN [ok |-> FALSE, table |-> table]
    ELSE [ok |-> TRUE, table |-> {}]

\* The request bodies explored.  A submission carries a name or none and a
\* correlation id or none; an update marks a contact as seen; a deletion
\* names a contact.
CallerIds == {IntToText(k) : k \in 0..MaxClock}
Dicts(keys, nombre, timestamp) ==
    [k \in keys |-> CASE k = "nombre"    -> nombre
                      [] k = "estado"    -> E_visto
                      [] k = "timestamp" -> timestamp]
ContactBodies ==
    {Dicts(keys, nombre, timestamp) :
        keys \in SUBSET {"nombre", "timestamp"}, nombre \in {N_ana, N_bea},
        timestamp \in CallerIds}
PublicBodies == {body \in ContactBodies : Get(body, "timestamp") \in {None, IntToText(0)}}
UpdateBodies ==
    {Dicts(keys, N_ana, timestamp) :
        keys \in {{"estado"}, {"estado", "timestamp"}}, timestamp \in CallerIds}
DeleteBodies ==
    {Dicts(keys, N_ana, timestamp) :
        keys \in {{}, {"timestamp"}}, timestamp \in CallerIds}

NoSubmission ==
    [endpoint |-> "none", body |-> EmptyDict, id |-> None, previous |-> None,
     stored |-> FALSE, status |-> 0, returned |-> None]

\* nombre of the row of table with that timestamp, if there is one.
NombreOf(table, timestamp) ==
    IF \E c \in table : c.timestamp = timestamp
    THEN Some((CHOOSE c \in table : c.timestamp = timestamp).nombre)
    ELSE None

\* A request was handled: body is what the caller of a submission endpoint
\* sent, id the timestamp storage_manager.guardar_contacto was called with,
\* if it was, previous the nombre the table held for it, and stored
\* whether the call returned True.
Submitted(endpoint, body, id, stored, status, returned) ==
    submission' = [endpoint |-> endpoint, body |-> body, id |-> id,
                   previous |-> IF id = None THEN None ELSE NombreOf(contactos, id[1]),
                   stored |-> stored, status |-> status, returned |-> returned]
(***************************************************************************)
(* The catalog: backend/logic/database.py, the bulk load of the feed and   *)
(* the queries of the table it fills.                                      *)
(***************************************************************************)
\* The JSON null of the feed, as json.loads gives it: Python's None.
Null == <<"null">>

\* Lines 132-198, for a feed that is an array of records (lines 160-162):
\* the records that hold the five required keys (lines 182-189).  A record
\* that holds them with a null operacion makes prop['operacion'].lower()
\* (line 185) raise; line 196 catches it and the load returns None, which
\* the caller (line 92) treats as a feed of no records.
cargar_propiedades_desde_json(propiedades) ==
    LET valid(prop) == {"titulo", "barrio", "precio", "operacion", "tipo"} \subseteq DOMAIN prop
    IN  IF \E k \in 1..Len(propiedades) :
              valid(propiedades[k]) /\ propiedades[k]["operacion"] = Null
        THEN None
        ELSE SelectSeq(propiedades, valid)

\* json.dumps of a list, as the text that json.loads (lines 298-303) turns
\* back into that list.
JsonText(list) == [json |-> list]

\* Lines 100-121: the row the INSERT writes for a record.  The statement
\* names no column estado, orientacion, amenities, info_multimedia or
\* fecha_procesamiento, so these are NULL in the row.  The columns
\* descripcion, balcon, pileta, acepta_mascotas, aire_acondicionado and the
\* two currencies are written like cochera; videos and documentos like
\* fotos.
InsertedRow(prop) ==
    [id_temporal         |-> prop["id_temporal"],
     titulo              |-> prop["titulo"],
     barrio              |-> prop["barrio"],
     precio              |-> prop["precio"],
     ambientes           |-> prop["ambientes"],
     metros_cuadrados    |-> prop["metros_cuadrados"],
     operacion           |-> prop["operacion"],
     tipo                |-> prop["tipo"],
     direccion           |-> Get(prop, "direccion"),
     antiguedad          |-> Get(prop, "antiguedad"),
     expensas            |-> Get(prop, "expensas"),
     cochera             |-> Get(prop, "cochera"),
     fotos               |-> JsonText(GetOr(prop, "fotos", <<>>)),
     estado              |-> None,
     orientacion         |-> None,
     fecha_procesamiento |-> None]

RECURSIVE InsertAll(_, _)
\* Lines 97-123: the records are inserted in order; a record without
\* ambientes or metros_cuadrados raises KeyError, one with a null in a NOT
\* NULL column (lines 58-87) or whose id_temporal the table holds raises
\* IntegrityError, and each is skipped (line 122).
InsertAll(table, propiedades) ==
    IF propiedades = <<>> THEN table
    ELSE InsertAll(
            IF /\ {"ambientes", "metros_cuadrados"} \subseteq DOMAIN Head(propiedades)
               /\ \A a \in {"titulo", "barrio", "operacion", "tipo"} :
                     Head(propiedades)[a] /= Null
               /\ \A r \in 1..Len(table) :
                     table[r].id_temporal /= Head(propiedades)["id_temporal"]
            THEN Append(table, InsertedRow(Head(propiedades)))
            ELSE table,
            Tail(propiedades))

\* Lines 22-130: a table with a rental is kept; otherwise the table is
\* dropped, created and filled from the feed.
initialize_databases(table, propiedades) ==
    IF \E r \in 1..Len(table) : table[r].operacion = <<"a","l","q","u","i","l","e","r">>
    THEN table
    ELSE InsertAll(<<>>, cargar_propiedades_desde_json(propiedades))

\* The repair that drops the table.
verificar_y_vaciar_bd(table, propiedades) == <<>>

\* Lines 217-245, as query_properties calls it (line 251): the table exists
\* with its essential columns once the module is imported, so nothing is
\* repaired.
verificar_y_reparar_bd(table, propiedades) == table

\* The records of the feed and the FilterSets explored.
FeedPool ==
    {[id_temporal |-> <<"f","1">>, titulo |-> <<"P","H">>, barrio |-> <<"B","o","e","d","o">>,
      precio |-> 900, ambientes |-> 3, metros_cuadrados |-> 70,
      operacion |-> <<"a","l","q","u","i","l","e","r">>, tipo |-> <<"p","h">>,
      direccion |-> <<"A","v"," ","1">>, antiguedad |-> 10, expensas |-> 50,
      cochera |-> <<"s","i">>, fotos |-> << <<"a",".","j","p","g">> >>,
      estado |-> <<"b","u","e","n","o">>, orientacion |-> <<"n","o","r","t","e">>,
      fecha_procesamiento |-> <<"2","0","2","4">>],
     [id_temporal |-> <<"f","2">>, titulo |-> <<"C","a","s","a">>,
      barrio |-> <<"P","a","l","e","r","m","o">>,
      precio |-> 250000, ambientes |-> 4, metros_cuadrados |-> 120,
      operacion |-> <<"v","e","n","t","a">>, tipo |-> <<"c","a","s","a">>],
     [id_temporal |-> <<"f","3">>, titulo |-> <<"D","e","p","t","o">>,
      barrio |-> <<"P","a","l","e","r","m","o">>,
      precio |-> 900, ambientes |-> 2, metros_cuadrados |-> 65,
      operacion |-> <<"a","l","q","u","i","l","e","r">>,
      tipo |-> <<"d","e","p","a","r","t","a","m","e","n","t","o">>],
     [id_temporal |-> <<"f","4">>, titulo |-> <<"L","o","t","e">>,
      barrio |-> <<"P","i","l","a","r">>, precio |-> 100,
      operacion |-> <<"v","e","n","t","a">>, tipo |-> <<"t","e","r","r","e","n","o">>],
     [id_temporal |-> <<"f","5">>, titulo |-> <<"S","i","n">>,
      barrio |-> <<"P","i","l","a","r">>, precio |-> 100, ambientes |-> 1,
      metros_cuadrados |-> 30, operacion |-> <<"v","e","n","t","a">>],
     [id_temporal |-> <<"f","6">>, titulo |-> <<"N","u","l","o">>,
      barrio |-> <<"B","o","e","d","o">>, precio |-> 500, ambientes |-> 2,
      metros_cuadrados |-> 40, operacion |-> Null, tipo |-> <<"p","h">>],
     [id_temporal |-> <<"f","7">>, titulo |-> <<"O","t","r","o">>,
      barrio |-> <<"B","o","e","d","o">>, precio |-> 500, ambientes |-> 2,
      metros_cuadrados |-> 40, operacion |-> <<"v","e","n","t","a">>, tipo |-> Null]}

Feeds == UNION {[1..n -> FeedPool] : n \in 0..MaxFeed}

QueryFilters ==
    {EmptyDict,
     [max_price |-> 0],
     [max_price |-> 900],
     [min_price |-> 900, max_price |-> 250000],
     [neighborhood |-> <<"P","A","L","E","R">>],
     [neighborhood |-> <<"b","o","e","d","o">>, min_rooms |-> 3],
     [operacion |-> <<"a","l","q","u","i","l","e","r">>, tipo |-> <<"p","h">>],
     [min_sqm |-> 70],
     [max_sqm |-> 70, tipo |-> <<"c","a","s","a">>],
     [min_rooms |-> 0, min_sqm |-> 0, min_price |-> 0]}

\* The feeds propiedades.json may be replaced with between two starts of
\* the server: no record, or one record of the pool.
Replacements == {<<>>} \cup {<<prop>> : prop \in FeedPool}

\* filters is the FilterSet queried, imported whether the module has been
\* imported, starts how often initialize_databases has run, and calls what
\* the calls of query_properties since it last ran returned.
NoLookup == [filters |-> EmptyDict, imported |-> FALSE, starts |-> 0, calls |-> <<>>]

\* Line 415: the module is imported, and the table is created and filled
\* from the feed.
import_database ==
    /\ ~lookup.imported
    /\ properties' = initialize_databases(properties, feed)
    /\ lookup' = [lookup EXCEPT !.imported = TRUE, !.starts = 1]
    /\ UNCHANGED <<API_KEYS, genai_key, logs, pc, request, frame, gw, response>>
    /\ UNCHANGED <<shaper, contactVars, feed, extraction, history, workers>>

\* Lines 247-311, as GET /properties (backend/main-ai.py, lines 304-313)
\* and GET /api/properties (main.py, lines 128-138) call it: one call of
\* query_properties with the FilterSet, which the store answers or fails.
run_query ==
    /\ lookup.imported
    /\ Len(lookup.calls) < MaxCalls
    /\ \E db_ok \in BOOLEAN :
          /\ properties' = IF db_ok THEN verificar_y_reparar_bd(properties, feed)
                                    ELSE properties
          /\ lookup' = [lookup EXCEPT !.calls =
                           Append(@, [ok   |-> db_ok,
                                      rows |-> query_properties(lookup.filters, properties',
                                                                db_ok).rows])]
    /\ UNCHANGED <<API_KEYS, genai_key, logs, pc, request, frame, gw, response>>
    /\ UNCHANGED <<shaper, contactVars, feed, extraction, history, workers>>

\* propiedades.json is replaced on disk.
replace_feed ==
    /\ lookup.imported
    /\ feed' \in Replacements \ {feed}
    /\ UNCHANGED <<chatVars, shaper, contactVars, lookup, extraction, history, workers>>

\* The server starts again on the database it left: initialize_databases()
\* runs at startup (backend/main-ai.py, line 58; main.py, line 339) on the
\* table that is there.
restart ==
    /\ lookup.imported
    /\ lookup.starts < MaxStarts
    /\ properties' = initialize_databases(properties, feed)
    /\ lookup' = [lookup EXCEPT !.starts = @ + 1, !.calls = <<>>]
    /\ UNCHANGED <<API_KEYS, genai_key, logs, pc, request, frame, gw, response>>
    /\ UNCHANGED <<shaper, contactVars, feed, extraction, history, workers>>

(***************************************************************************)
(* The extractor on its own: logic/filters.py, detect_filters over the     *)
(* texts explored.                                                         *)
(***************************************************************************)
\* The words the explored texts are made of: greetings, gazetteer entries
\* in either case, type and operation words, and the pieces of the price,
\* rooms and area patterns.
ExtractorWords ==
    {<<"h","o","l","a">>, <<"b","u","s","c","o">>, <<"e","n">>,
     <<"P","a","l","e","r","m","o">>, <<"b","o","e","d","o">>, <<"p","i","l","a","r">>,
     <<"c","a","s","a">>, <<"t","e","r","r","e","n","o">>,
     <<"d","e","p","a","r","t","a","m","e","n","t","o">>, <<"o","f","i","c","i","n","a">>,
     <<"p","h">>, <<"c","a","s","a","q","u","i","n","t","a">>, <<"v","e","n","t","a">>,
     <<"h","a","s","t","a">>, <<"d","e","s","d","e">>, <<".">>, <<"9","0","0">>, <<"0">>,
     <<"u","s","d">>, <<"3">>, <<"a","m","b">>, <<"m","2">>}

\* The texts of at most MaxWords words, the words a space apart.
ExtractorTexts ==
    LET RECURSIVE Phrase(_)
        Phrase(ws) == IF ws = <<>> THEN <<>>
                      ELSE IF Len(ws) = 1 THEN ws[1]
                      ELSE ws[1] \o <<" ">> \o Phrase(Tail(ws))
    IN  {Phrase(ws) : ws \in UNION {[1..n -> ExtractorWords] : n \in 0..MaxWords}}

NoExtraction == [text |-> <<>>, filters |-> None]

\* backend/main-ai.py, lines 166 and 176 (main.py, lines 266-267): the text
\* is lower-cased and handed to detect_filters.
extract ==
    /\ extraction.filters = None
    /\ extraction' = [extraction EXCEPT !.filters = Some(detect_filters(Lower(extraction.text)))]
    /\ UNCHANGED <<chatVars, shaper, contactVars, feed, lookup, history, workers>>

(***************************************************************************)
(* The readers of table logs: backend/logic/database.py,                   *)
(* get_historial_canal and get_last_bot_response.                          *)
(***************************************************************************)
\* Line 313: the limit a caller that names none reads with.
DefaultLimit == 5

UsuarioPrefix == <<"U","s","u","a","r","i","o",":"," ">>
BotPrefix     == <<"B","o","t",":"," ">>

\* SELECT ... WHERE channel = ? ORDER BY id ASC LIMIT ?
SelectLogsAscending(table, canal, limit) ==
    LET rows == SelectSeq(table, LAMBDA row : row.channel = canal)
    IN  SubSeq(rows, 1, Min({limit, Len(rows)}))

\* Lines 333-336 and 368-371: SELECT ... WHERE channel = ? ORDER BY id DESC
\* LIMIT ?, the ids growing with the appends.
SelectLogs(table, canal, limit) ==
    LET RECURSIVE Desc(_)
        Desc(i) == IF i = 0 THEN <<>>
                   ELSE (IF table[i].channel = canal THEN <<table[i]>> ELSE <<>>) \o Desc(i - 1)
        rows == Desc(Len(table))
    IN  SubSeq(rows, 1, Min({limit, Len(rows)}))

RECURSIVE HistorialOf(_)
\* Lines 338-341: two strings a row, the user's and then the bot's.
HistorialOf(rows) ==
    IF rows = <<>> THEN <<>>
    ELSE <<UsuarioPrefix \o Head(rows).user_message, BotPrefix \o Head(rows).bot_response>>
         \o HistorialOf(Tail(rows))

\* Lines 313-347: the strings of the rows read, or [] when the store fails.
get_historial_canal(table, canal, limit, db_ok) ==
    IF db_ok THEN HistorialOf(SelectLogs(table, canal, limit)) ELSE <<>>

\* Lines 349-378: the bot text of the first row read, or None when there is
\* none or the store fails.
get_last_bot_response(table, canal, db_ok) ==
    LET rows == SelectLogs(table, canal, 1)
    IN  IF db_ok /\ rows /= <<>> THEN Some(rows[1].bot_response) ELSE None

\* The turns appended and the limits read with.
Turns  == {[user_message |-> <<"u","1">>, bot_response |-> <<"b","1">>],
           [user_message |-> <<"u","2">>, bot_response |-> <<"b","2">>]}
Limits == (0..MaxLimit) \cup {DefaultLimit}

NoHistory == [op |-> "none", canal |-> "web", limit |-> 0, ok |-> TRUE, seen |-> 0, result |-> <<>>]

\* Lines 384-412, as the chat endpoints call it: a turn is appended on a
\* channel, unless the store fails.
append_turn ==
    /\ Len(logs) < MaxLog
    /\ \E turn \in Turns, channel \in Channels, log_ok \in BOOLEAN :
          logs' = log_conversation(logs, LogRow(turn.user_message, turn.bot_response,
                                                channel, FALSE, 0), log_ok).table
    /\ UNCHANGED <<API_KEYS, genai_key, properties, pc, request, frame, gw, response>>
    /\ UNCHANGED <<shaper, contactVars, feed, lookup, extraction, history, workers>>

\* A call of get_historial_canal (backend/main-ai.py, line 195; main.py,
\* line 283), on the rows the table holds.
read_historial ==
    /\ \E canal \in Channels, limit \in Limits, db_ok \in BOOLEAN :
          history' = [op |-> "historial", canal |-> canal, limit |-> limit, ok |-> db_ok,
                      seen |-> Len(logs),
                      result |-> get_historial_canal(logs, canal, limit, db_ok)]
    /\ UNCHANGED <<chatVars, shaper, contactVars, feed, lookup, extraction, workers>>

\* A call of get_last_bot_response, on the rows the table holds.
read_last ==
    /\ \E canal \in Channels, db_ok \in BOOLEAN :
          history' = [op |-> "last", canal |-> canal, limit |-> 1, ok |-> db_ok,
                      seen |-> Len(logs),
                      result |-> get_last_bot_response(logs, canal, db_ok)]
    /\ UNCHANGED <<chatVars, shaper, contactVars, feed, lookup, extraction, workers>>

(***************************************************************************)
(* The gateway under requests served at once: main.py serves /api/chat     *)
(* with app.run (line 344), one thread a request, and each thread runs     *)
(* call_gemini_with_rotation (logic/gemini_client.py) on the one module    *)
(* genai.                                                                  *)
(***************************************************************************)
\* What an attempt of a call that runs beside others may meet.
WorkerOutcomes == {o \in Outcomes : o.text \in {<<>>, Ex_Plain}}

\* The locals of one call: where it stands, the loop's state, and the
\* credential each of its completion calls was made with.
IdleWorker == [pc |-> "idle", g |-> IdleGw, used |-> <<>>]
NoWorkers  == [w \in 1..MaxWorkers |-> IdleWorker]

\* Lines 24-34: the call starts; without credentials it returns the
\* fallback, otherwise the loop begins at the first credential.
worker_enter(w) ==
    /\ workers[w].pc = "idle"
    /\ workers' = [workers EXCEPT ![w] =
                      IF API_KEYS = <<>>
                      THEN [@ EXCEPT !.pc = "done",
                                     !.g = [GatewayEntered EXCEPT !.result =
                                               [kind |-> "return", text |-> get_fallback_response]]]
                      ELSE [@ EXCEPT !.pc = "loop", !.g = GatewayEntered]]
    /\ UNCHANGED <<chatVars, shaper, contactVars, feed, lookup, extraction, history>>

\* Lines 39-42: genai.configure sets the credential of the call's i-th
\* attempt, for the whole process.
worker_configure(w) ==
    /\ workers[w].pc = "loop"
    /\ genai_key' = API_KEYS[workers[w].g.i]
    /\ workers' = [workers EXCEPT ![w].pc = "configured"]
    /\ UNCHANGED <<API_KEYS, properties, logs, pc, request, frame, gw, response>>
    /\ UNCHANGED <<shaper, contactVars, feed, lookup, extraction, history>>

\* Lines 44-89: the model is built and generate_content is sent with the
\* credential the process is configured with; the call comes back, and the
\* loop goes on, returns the completion or ends with the fallback; or the
\* call never comes back.
worker_generate(w) ==
    /\ workers[w].pc = "configured"
    /\ \E outcome \in WorkerOutcomes :
          LET sent == [workers[w].g EXCEPT !.outcome = outcome, !.attempts = @ + 1]
              g    == IF outcome.kind = "hang" THEN sent
                      ELSE AfterAttempt(sent, AttemptResult(outcome), API_KEYS)
          IN  workers' = [workers EXCEPT ![w] =
                             [pc   |-> IF outcome.kind = "hang" THEN "hung"
                                       ELSE IF g.result.kind = "none" THEN "loop" ELSE "done",
                              g    |-> g,
                              used |-> Append(@.used, genai_key)]]
    /\ UNCHANGED <<chatVars, shaper, contactVars, feed, lookup, extraction, history>>


\* The store answered r to guardar_contacto(datos): the endpoint's response.
StoreAndAnswer(endpoint, body, datos, r, returns_id) ==
    /\ contactos' = r.table
    /\ Submitted(endpoint, body, Some(Get(datos, "timestamp")), r.ok,
                 IF r.ok THEN 200 ELSE 500,
                 IF r.ok /\ returns_id THEN Some(datos["timestamp"]) ELSE None)

\* The request is answered without a call of the store.
Refused(endpoint, body, status) ==
    /\ Submitted(endpoint, body, None, FALSE, status, None)
    /\ UNCHANGED contactos

\* Lines 378-381: the metadata the public endpoint sets on the body.
PublicDatos(body, now) ==
    Put(Put(body, "timestamp", IntToText(now)), "ip_address", Ip_web)

\* Lines 369-396: POST /api/guardar-contacto.
guardar_contacto ==
    /\ \E body \in PublicBodies :
          IF Get(body, "nombre") = None
          THEN Refused("guardar_contacto", body, 400)
          ELSE \E db_ok \in BOOLEAN :
                  StoreAndAnswer("guardar_contacto", body, PublicDatos(body, clock),
                                 storage_guardar_contacto(contactos, PublicDatos(body, clock),
                                                          clock, db_ok),
                                 TRUE)
    /\ UNCHANGED <<clock, chatVars, shaper, catalogVars>>

\* Lines 446-450: the body the admin endpoint hands to the store.
AdminDatos(body, now) ==
    Put(IF "timestamp" \notin DOMAIN body THEN Put(body, "timestamp", IntToText(now)) ELSE body,
        "estado", GetOr(body, "estado", E_nuevo))

\* Lines 436-437: the token of the URL is not ADMIN_TOKEN.
Unauthorized(endpoint) == Refused(endpoint, EmptyDict, 403)

\* Lines 434-458: POST /admin/add/<token>.
agregar_contacto_admin ==
    /\ \/ Unauthorized("agregar_contacto_admin")
       \/ \E body \in ContactBodies :
             IF Get(body, "nombre") = None
             THEN Refused("agregar_contacto_admin", body, 400)
             ELSE \E db_ok \in BOOLEAN :
                     StoreAndAnswer("agregar_contacto_admin", body, AdminDatos(body, clock),
                                    storage_guardar_contacto(contactos, AdminDatos(body, clock),
                                                             clock, db_ok),
                                    FALSE)
    /\ UNCHANGED <<clock, chatVars, shaper, catalogVars>>

\* The store answered r to an update, a deletion or a clearing.
Answered(endpoint, r) ==
    /\ contactos' = r.table
    /\ Submitted(endpoint, EmptyDict, None, FALSE, IF r.ok THEN 200 ELSE 500, None)

\* Lines 460-480: PUT /admin/update/<token>.
actualizar_contacto_admin ==
    /\ \/ Unauthorized("actualizar_contacto_admin")
       \/ \E body \in UpdateBodies :
             IF Get(body, "timestamp") = None
             THEN Refused("actualizar_contacto_admin", EmptyDict, 400)
             ELSE \E db_ok \in BOOLEAN :
                     Answered("actualizar_contacto_admin",
                              storage_actualizar_contacto(contactos, body["timestamp"], body,
                                                          clock, db_ok))
    /\ UNCHANGED <<clock, chatVars, shaper, catalogVars>>

\* Lines 482-501: DELETE /admin/delete/<token>.
eliminar_contacto_admin ==
    /\ \/ Unauthorized("eliminar_contacto_admin")
       \/ \E body \in DeleteBodies :
             IF Get(body, "timestamp") = None
             THEN Refused("eliminar_contacto_admin", EmptyDict, 400)
             ELSE \E db_ok \in BOOLEAN :
                     Answered("eliminar_contacto_admin",
                              storage_eliminar_contacto(contactos, body["timestamp"], db_ok))
    /\ UNCHANGED <<clock, chatVars, shaper, catalogVars>>

\* Lines 503-515: DELETE /admin/clear/<token>.  The endpoint answers 200
\* whatever the store returned.
limpiar_datos_admin ==
    /\ \/ Unauthorized("limpiar_datos_admin")
       \/ \E db_ok \in BOOLEAN :
             Answered("limpiar_datos_admin",
                      [storage_limpiar_todos_contactos(contactos, db_ok) EXCEPT !.ok = TRUE])
    /\ UNCHANGED <<clock, chatVars, shaper, catalogVars>>

\* A millisecond passes.
Tick ==
    /\ clock < MaxClock
    /\ clock' = clock + 1
    /\ UNCHANGED <<contactos, submission, chatVars, shaper, catalogVars>>

(***************************************************************************)
(* Initial states and specifications.                                      *)
(***************************************************************************)
InitStores ==
    /\ properties = Catalog
    /\ logs = <<>>
    /\ contactos = {}
    /\ clock = 0
    /\ submission = NoSubmission
    /\ feed = <<>>
    /\ lookup = NoLookup
    /\ extraction = NoExtraction
    /\ history = NoHistory
    /\ workers = NoWorkers

InitRequest ==
    /\ genai_key = 0
    /\ pc = "idle"
    /\ request = IdleRequest
    /\ frame = IdleFrame
    /\ gw = IdleGw
    /\ response = NoResponse

\* The chat service starts with the credentials its environment sets.
Init ==
    /\ properties = Catalog
    /\ logs = <<>>
    /\ contactos = {}
    /\ clock = 0
    /\ submission = NoSubmission
    /\ feed = <<>>
    /\ lookup = NoLookup
    /\ extraction = NoExtraction
    /\ history = NoHistory
    /\ workers = NoWorkers
    /\ InitRequest
    /\ API_KEYS \in {LoadKeys(1..n, 1) : n \in 0..KeySlots}
    /\ shaper = NoShaper

\* The chat endpoint of backend/main-ai.py.
Next ==
    \/ chat_ai_begin
    \/ gemini_no_keys
    \/ gemini_send
    \/ gemini_receive
    \/ chat_ai_resume
    \/ chat_deliver

Spec == Init /\ [][Next]_vars

\* A request in flight is not abandoned by the server: the step the gateway
\* or the handler can take next is taken.  Nothing obliges a client to send
\* a request.
Fairness ==
    /\ WF_vars(gemini_no_keys)
    /\ WF_vars(gemini_send)
    /\ WF_vars(gemini_receive)
    /\ WF_vars(chat_ai_resume)
    /\ WF_vars(chat_deliver)

FairSpec == Init /\ [][Next]_vars /\ Fairness

\* The chat endpoint of main.py.
FlaskNext ==
    \/ chat_flask_begin
    \/ gemini_no_keys
    \/ gemini_send
    \/ gemini_receive
    \/ chat_flask_resume
    \/ chat_deliver

SpecFlask == Init /\ [][FlaskNext]_vars

\* The chat service of backend/main-ai.py started on the conversation_logs.db an earlier
\* run left.
ResumedInit ==
    /\ InitRequest
    /\ API_KEYS \in {LoadKeys(1..n, 1) : n \in 0..KeySlots}
    /\ shaper = NoShaper
    /\ properties = Catalog
    /\ logs = <<PersistedTurn>>
    /\ contactos = {}
    /\ clock = 0
    /\ submission = NoSubmission
    /\ feed = <<>>
    /\ lookup = NoLookup
    /\ extraction = NoExtraction
    /\ history = NoHistory
    /\ workers = NoWorkers

ResumedSpec == ResumedInit /\ [][Next]_vars

\* The response shaper over every text and record count explored.
ShaperInit ==
    /\ InitStores
    /\ InitRequest
    /\ API_KEYS = <<>>
    /\ shaper \in {[answer |-> a, results_count |-> n, reply |-> None] :
                      a \in ShaperTexts, n \in 1..MaxResults}

ShaperNext == shape_response

ShaperSpec == ShaperInit /\ [][ShaperNext]_vars

\* The contact service of app.py.
ContactInit ==
    /\ InitStores
    /\ InitRequest
    /\ API_KEYS = <<>>
    /\ shaper = NoShaper

ContactNext ==
    \/ guardar_contacto
    \/ agregar_contacto_admin
    \/ actualizar_contacto_admin
    \/ eliminar_contacto_admin
    \/ limpiar_datos_admin
    \/ Tick

ContactSpec == ContactInit /\ [][ContactNext]_vars

\* The contact service with the traffic of its public form alone.
PublicContactNext ==
    \/ guardar_contacto
    \/ Tick

PublicContactSpec == ContactInit /\ [][PublicContactNext]_vars

\* The stores the catalog and the extractor leave alone.
InitOthers ==
    /\ InitRequest
    /\ API_KEYS = <<>>
    /\ shaper = NoShaper
    /\ logs = <<>>
    /\ contactos = {}
    /\ clock = 0
    /\ submission = NoSubmission

\* The catalog: a feed is loaded when the module is imported, and one
\* FilterSet is then queried; the feed may be replaced and the server
\* started again.
CatalogInit ==
    /\ InitOthers
    /\ extraction = NoExtraction
    /\ history = NoHistory
    /\ workers = NoWorkers
    /\ properties = <<>>
    /\ feed \in Feeds
    /\ lookup \in {[NoLookup EXCEPT !.filters = filters] : filters \in QueryFilters}

CatalogNext ==
    \/ import_database
    \/ run_query
    \/ replace_feed
    \/ restart

CatalogSpec == CatalogInit /\ [][CatalogNext]_vars

\* The extractor over every text explored.
ExtractorInit ==
    /\ InitOthers
    /\ properties = Catalog
    /\ feed = <<>>
    /\ lookup = NoLookup
    /\ extraction \in {[NoExtraction EXCEPT !.text = text] : text \in ExtractorTexts}
    /\ history = NoHistory
    /\ workers = NoWorkers

ExtractorNext == extract

ExtractorSpec == ExtractorInit /\ [][ExtractorNext]_vars


\* The log and its readers: turns are appended on either channel, and the
\* table is read in between.
HistoryInit ==
    /\ InitOthers
    /\ properties = Catalog
    /\ feed = <<>>
    /\ lookup = NoLookup
    /\ extraction = NoExtraction
    /\ history = NoHistory
    /\ workers = NoWorkers

HistoryNext ==
    \/ append_turn
    \/ read_historial
    \/ read_last

HistorySpec == HistoryInit /\ [][HistoryNext]_vars

\* The gateway of main.py under requests served at once.
ConcurrentInit ==
    /\ InitStores
    /\ InitRequest
    /\ API_KEYS \in {LoadKeys(1..n, 1) : n \in 0..KeySlots}
    /\ shaper = NoShaper

ConcurrentNext ==
    \E w \in 1..MaxWorkers :
       \/ worker_enter(w)
       \/ worker_configure(w)
       \/ worker_generate(w)

ConcurrentSpec == ConcurrentInit /\ [][ConcurrentNext]_vars
(***************************************************************************)
(* Properties.                                                             *)
(***************************************************************************)
\* The request in flight went through the merge step of chat().
Merged ==
    pc \in {"gateway", "waiting", "returned"} \/ (pc = "done" /\ response.status = 200)

\* C1: in the merge step, every key of the explicit (UI-supplied) filters
\* keeps its explicit value in the merged filters, also when the extractor
\* set the same key; a detected key is taken only when the explicit filters
\* lack it; and the merged filters have no other key.
ExplicitFiltersWin ==
    Merged =>
        /\ DOMAIN frame.filters = DOMAIN request.filters \cup DOMAIN frame.detected_filters
        /\ \A k \in DOMAIN request.filters : frame.filters[k] = request.filters[k]
        /\ \A k \in DOMAIN frame.detected_filters \ DOMAIN request.filters :
              frame.filters[k] = frame.detected_filters[k]

\* The gateway was called for the request in flight and has come back.
GatewayCameBack == pc \in {"returned", "done"} /\ gw.calls = 1

\* C2: call_gemini_with_rotation never raises to its caller: whatever each
\* credential's attempt met (a completion, an exception, a response without
\* parts), the call returns the text of the completion it got or the fixed
\* fallback text.
GatewayNeverRaises ==
    GatewayCameBack =>
        /\ gw.result.kind = "return"
        /\ gw.result.text = IF gw.outcome.kind = "ok"
                            THEN Strip(gw.outcome.text) ELSE FallbackText

\* A call came back after a response without parts on the last of three
\* credentials.
GatewayAbsorbedFailures ==
    /\ GatewayCameBack
    /\ Len(API_KEYS) = KeySlots
    /\ gw.failed = KeySlots
    /\ gw.outcome.kind = "empty"

\* C3: with N >= 0 credentials, a call in which every attempt failed
\* returns the fixed fallback text verbatim after exactly N attempts (none
\* when there is no credential); no call makes more than N attempts.
AllFailedFallsBack ==
    /\ gw.attempts <= Len(API_KEYS)
    /\ (GatewayCameBack /\ gw.failed = gw.attempts) =>
          /\ gw.result = [kind |-> "return", text |-> FallbackText]
          /\ gw.attempts = Len(API_KEYS)

\* A call came back after three failed attempts on three credentials.
ThreeCredentialsFailed ==
    /\ GatewayCameBack
    /\ Len(API_KEYS) = 3
    /\ gw.attempts = 3
    /\ gw.failed = 3

\* C4: every chat request that reached the gateway is eventually answered,
\* also when a completion call never returns.
EveryRequestAnswered == (pc \in {"gateway", "waiting", "returned"}) ~> (pc = "done")

\* C5: a chat request whose message is empty, or empty once trimmed, gets a
\* client-error (4xx) response and no turn is logged for it.
EmptyMessageIsClientError ==
    (pc = "done" /\ Strip(request.message) = <<>>) =>
        /\ response.status \in 400..499
        /\ ~response.logged

\* The message of the request in flight is a first greeting.
FirstGreeting ==
    es_saludo_inicial(Lower(Strip(request.message)), request.contexto_anterior)

\* C6: a chat request whose lower-cased message contains a greeting token
\* and that carries no previous context is answered with the fixed welcome
\* template, and the gateway is not called for it.
GreetingShortCircuit ==
    (Merged /\ FirstGreeting) =>
        /\ gw.calls = 0
        /\ pc = "done" => response.response = WelcomeTemplate

\* The example of a listing was shaped against 2 records.
ExampleShaped ==
    /\ shaper.answer = Ex_Listing
    /\ shaper.results_count = 2
    /\ shaper.reply /= None

\* A line of text that starts with a digit.
HasNumberedLine(text) ==
    \E i \in 1..Len(Split(text)) :
        Split(text)[i] /= <<>> /\ IsDigit(Split(text)[i][1])

\* C7, as stated: shaping the example (two numbered lines, a blank line, the
\* closing sentence) against 2 records strips the numbered lines and yields
\* the closing sentence, possibly followed by the synthesized suffix.
ClosingSentenceSurvives ==
    ExampleShaped =>
        /\ ~HasNumberedLine(shaper.reply[1])
        /\ Len(shaper.reply[1]) >= Len(Ex_Closing)
        /\ SubSeq(shaper.reply[1], 1, Len(Ex_Closing)) = Ex_Closing

\* C7, amended: shaping the example against 2 records strips the numbered
\* lines; the closing sentence that is left has 19 characters, fewer than
\* the minimum of 20, so the reply is the synthesized confirmation for 2
\* records and the closing sentence is not part of it.
ExampleYieldsConfirmation ==
    ExampleShaped =>
        /\ ~HasNumberedLine(shaper.reply[1])
        /\ Len(Ex_Closing) = 19
        /\ shaper.reply[1] = Ex_Confirm2
        /\ ~Contains(Ex_Closing, shaper.reply[1])

\* The example was shaped and the reply is the confirmation.
ExampleConfirmed == ExampleShaped /\ shaper.reply[1] = Ex_Confirm2

\* A line that starts with a digit followed by '.' or ')', or that holds one
\* of the property emoji.
IsListingLine(line) ==
    \/ Len(line) >= 2 /\ IsDigit(line[1]) /\ line[2] \in {".", ")"}
    \/ \E e \in 1..Len(ListingEmoji) : Contains(ListingEmoji[e], line)

\* C8: whatever the LLM text, the reply of the shaper has no line that
\* starts with a digit followed by '.' or ')' and no line holding one of the
\* property emoji.
NoListingLineSurvives ==
    shaper.reply /= None =>
        \A i \in 1..Len(Split(shaper.reply[1])) :
            ~IsListingLine(Split(shaper.reply[1])[i])

\* A text with a numbered line, an emoji line and a plain line was shaped,
\* and the plain line is in the reply.
ListingShapedAway ==
    /\ shaper.reply /= None
    /\ Contains(L_num2, shaper.answer)
    /\ Contains(L_price, shaper.answer)
    /\ Contains(Ex_Plain, shaper.reply[1])

\* The rows of table with that timestamp.
RowsOf(table, timestamp) == {c \in table : c.timestamp = timestamp}

\* C9: when guardar_contacto succeeds for a correlation id the store holds
\* under another name, the store holds exactly one record of that id
\* afterwards, with the name and the state of this submission and the
\* update time of this call, and no record is added.
UpsertKeepsOneRecord ==
    [][ \A old \in contactos :
          ( /\ submission'.stored
            /\ clock' = clock
            /\ submission'.id = Some(old.timestamp)
            /\ submission'.previous = Some(old.nombre)
            /\ old.nombre /= submission'.body["nombre"] )
          => /\ Cardinality(RowsOf(contactos', old.timestamp)) = 1
             /\ \A c \in RowsOf(contactos', old.timestamp) :
                   /\ c.nombre = submission'.body["nombre"]
                   /\ c.estado = E_nuevo
                   /\ c.fecha_actualizacion = clock
             /\ Cardinality(contactos') = Cardinality(contactos) ]_vars

\* A second submission of an id, under another name and a millisecond
\* after the first, was stored.
Resubmitted ==
    /\ submission.stored
    /\ submission.previous = Some(N_ana)
    /\ submission.body["nombre"] = N_bea
    /\ \E c \in contactos :
          /\ Some(c.timestamp) = submission.id
          /\ c.nombre = N_bea
          /\ c.fecha_actualizacion = 1

\* C10: the public submission endpoint stores a submission under the
\* correlation id its caller supplied and returns that id; it generates an
\* id only when the caller supplied none.
CallerIdIsKept ==
    ( /\ submission.endpoint = "guardar_contacto"
      /\ submission.status = 200
      /\ "timestamp" \in DOMAIN submission.body )
    => /\ submission.returned = Some(submission.body["timestamp"])
       /\ submission.id = Some(submission.body["timestamp"])

(***************************************************************************)
(* The catalog queries.                                                    *)
(***************************************************************************)
\* A row satisfies a FilterSet as the specification reads it: every filter
\* present applies, the neighbourhood as a case-insensitive substring, the
\* numbers as inclusive bounds whatever their value, operation and type
\* exactly.
Satisfies(row, F) ==
    /\ "neighborhood" \in DOMAIN F => Contains(Lower(F["neighborhood"]), Lower(row.barrio))
    /\ "min_price" \in DOMAIN F => row.precio >= F["min_price"]
    /\ "max_price" \in DOMAIN F => row.precio <= F["max_price"]
    /\ "min_rooms" \in DOMAIN F => row.ambientes >= F["min_rooms"]
    /\ "min_sqm" \in DOMAIN F => row.metros_cuadrados >= F["min_sqm"]
    /\ "max_sqm" \in DOMAIN F => row.metros_cuadrados <= F["max_sqm"]
    /\ "operacion" \in DOMAIN F => row.operacion = F["operacion"]
    /\ "tipo" \in DOMAIN F => row.tipo = F["tipo"]

\* The calls of query_properties the store answered.
AnsweredCalls == {c \in 1..Len(lookup.calls) : lookup.calls[c].ok}

\* The row of the table is among the rows returned.
Returned(rows, row) == \E i \in 1..Len(rows) : rows[i].id_temporal = row.id_temporal

\* C11: query_properties(F) returns exactly the rows of the catalog that
\* satisfy every filter present in F, a numeric bound of 0 included: no row
\* returned violates a filter and no row that satisfies them all is left out.
QueryReturnsExactlyTheMatches ==
    \A c \in AnsweredCalls :
       /\ \A i \in 1..Len(lookup.calls[c].rows) :
             Satisfies(lookup.calls[c].rows[i], lookup.filters)
       /\ \A r \in 1..Len(properties) :
             Satisfies(properties[r], lookup.filters)
                => Returned(lookup.calls[c].rows, properties[r])

\* C12: the rows query_properties returns are in non-decreasing order of
\* price for every FilterSet, and for the empty FilterSet they are all the
\* rows of the catalog.
QueryIsPriceOrdered ==
    \A c \in 1..Len(lookup.calls) :
       LET rows == lookup.calls[c].rows
       IN  /\ \A i \in 1..Len(rows), j \in 1..Len(rows) :
                 i < j => rows[i].precio <= rows[j].precio
           /\ (c \in AnsweredCalls /\ lookup.filters = EmptyDict)
                 => /\ Len(rows) = Len(properties)
                    /\ \A r \in 1..Len(properties) : Returned(rows, properties[r])

\* The whole catalog was returned, in another order than the table's.
FullCatalogReordered ==
    \E c \in AnsweredCalls :
       /\ lookup.filters = EmptyDict
       /\ Len(lookup.calls[c].rows) = 2
       /\ properties[1].precio > properties[2].precio
       /\ lookup.calls[c].rows[1].precio < lookup.calls[c].rows[2].precio

\* The attributes of a PropertyRecord the round trip is about.
SpecifiedAttributes ==
    {"id_temporal", "titulo", "barrio", "precio", "ambientes", "metros_cuadrados",
     "operacion", "tipo", "direccion", "antiguedad", "expensas", "cochera", "fotos",
     "estado", "orientacion", "fecha_procesamiento"}

\* C13: a record the bulk load accepted and query_properties then returned
\* for the empty FilterSet has the value of the feed record in every
\* specified attribute, estado, orientacion, direccion, antiguedad,
\* expensas, the amenity flags, the media lists and fecha_procesamiento
\* included.
RoundTripKeepsAttributes ==
    \A c \in AnsweredCalls :
       lookup.filters = EmptyDict =>
          \A i \in 1..Len(lookup.calls[c].rows), k \in 1..Len(feed) :
             feed[k]["id_temporal"] = lookup.calls[c].rows[i].id_temporal =>
                \A a \in SpecifiedAttributes :
                   lookup.calls[c].rows[i][a] = Get(feed[k], a)

Occurs(vocabulary, text_lower) ==
    \E k \in 1..Len(vocabulary) : Contains(Lower(vocabulary[k]), text_lower)

HasDigit(text_lower) == \E i \in 1..Len(text_lower) : IsDigit(text_lower[i])

\* C15: for a text with no gazetteer neighbourhood, no type or operation
\* word and no number, detect_filters returns the empty FilterSet; and in
\* every result a category that did not match is absent, a text key holds
\* a non-empty text and a numeric key a number.
UnmatchedCategoriesAreAbsent ==
    extraction.filters /= None =>
       LET text_lower == Lower(extraction.text)
           filters    == extraction.filters[1]
       IN  /\ (/\ ~Occurs(BARRIOS, text_lower)
               /\ ~Occurs(TIPOS, text_lower)
               /\ ~Occurs(OPERACIONES, text_lower)
               /\ ~HasDigit(text_lower)) => filters = EmptyDict
           /\ "neighborhood" \in DOMAIN filters => Occurs(BARRIOS, text_lower)
           /\ "tipo" \in DOMAIN filters => Occurs(TIPOS, text_lower)
           /\ "operacion" \in DOMAIN filters => Occurs(OPERACIONES, text_lower)
           /\ \A k \in DOMAIN filters :
                 IF k \in {"neighborhood", "tipo", "operacion"}
                 THEN filters[k] /= <<>>
                 ELSE HasDigit(text_lower) /\ filters[k] \in Nat

\* A text of plain words only went through the extractor.
PlainTextExtracted ==
    /\ extraction.text = <<"h","o","l","a"," ","b","u","s","c","o">>
    /\ extraction.filters = Some(EmptyDict)

\* C16: for a text in which a gazetteer name occurs, detect_filters sets
\* neighborhood to the lower-cased gazetteer entry that comes first in the
\* gazetteer among those occurring, wherever they stand in the text.
FirstGazetteerEntryWins ==
    extraction.filters /= None =>
       LET text_lower == Lower(extraction.text)
           occurring  == {k \in 1..Len(BARRIOS) : Contains(Lower(BARRIOS[k]), text_lower)}
       IN  occurring /= {} =>
              /\ "neighborhood" \in DOMAIN extraction.filters[1]
              /\ extraction.filters[1]["neighborhood"] = Lower(BARRIOS[Min(occurring)])

\* Palermo stands first in the text and Boedo first in the gazetteer.
LaterInTextWins ==
    /\ extraction.text = <<"P","a","l","e","r","m","o"," ","b","o","e","d","o">>
    /\ extraction.filters /= None
    /\ extraction.filters[1]["neighborhood"] = <<"b","o","e","d","o">>

(***************************************************************************)
(* Failures inside a chat request.                                         *)
(***************************************************************************)
\* C17: an exception raised while chat() handles a request, in any of its
\* steps, reaches the handler of the try block, and the response is the
\* server error with the fixed message: no reply text, no records, no
\* counts, and nothing of the exception.
ExceptionsBecomeGenericError ==
    pc = "done" =>
       /\ response.fault /= None => response.raised = response.fault
       /\ response.raised /= None =>
             /\ response.status = 500
             /\ response.detail = ErrorDetail
             /\ response.response = <<>>
             /\ response.propiedades = None
             /\ response.results_count = None
             /\ ~response.search_performed

\* A step after the call of log_conversation raised, and the handler
\* answered.
LateFaultAnswered ==
    /\ pc = "done"
    /\ response.logged
    /\ response.fault /= None
    /\ response.status = 500

\* The text chat() returns for the request when nothing fails: the welcome
\* when the gateway was not called, else the gateway's text, shaped.
ExpectedAnswer ==
    IF gw.result.kind = "none" THEN WelcomeTemplate ELSE AnswerOf(frame, gw.result.text)

\* C18: a failed append of the turn is swallowed by log_conversation: the
\* request gets the reply it gets when the append succeeds, with the same
\* text, records and counts.
LogFailureIsSwallowed ==
    (pc = "done" /\ response.logged /\ ~response.log_ok /\ response.fault = None) =>
       /\ response.status = 200
       /\ response.raised = None
       /\ response.response = ExpectedAnswer
       /\ response.propiedades = frame.results
       /\ response.results_count = (IF frame.results = None THEN None
                                    ELSE Some(Len(frame.results[1])))
       /\ response.search_performed = frame.search_performed

\* A reply with records went out although its turn was not appended.
RepliedWithoutLogRow ==
    /\ pc = "done"
    /\ response.logged
    /\ ~response.log_ok
    /\ TurnsOfRun(logs) = 0
    /\ response.status = 200
    /\ response.propiedades /= None
    /\ Len(response.propiedades[1]) > 0

\* C19: when the store fails during the query of a request with a
\* non-empty FilterSet, query_properties returns no rows and raises
\* nothing: the request completes with search_performed true and a result
\* count of 0.
StoreFailureGivesEmptySearch ==
    (pc = "done" /\ frame.search_performed /\ ~frame.db_ok /\ response.fault = None) =>
       /\ response.status = 200
       /\ response.search_performed
       /\ response.results_count = Some(0)
       /\ response.propiedades = Some(<<>>)

\* A request whose query the store failed was answered by the gateway.
AnsweredWithoutStore ==
    /\ pc = "done"
    /\ ~frame.db_ok
    /\ DOMAIN frame.filters /= {}
    /\ gw.attempts > 0
    /\ response.status = 200
    /\ response.results_count = Some(0)

\* C20: within a call, the attempts take the credentials one by one in
\* declaration order, each once; a next attempt follows only an attempt
\* that failed or came back without parts; and the first attempt that
\* comes back with content ends the call with that text, after which
\* no credential is attempted.
RotationInDeclarationOrder ==
    [][/\ (gw'.attempts /= gw.attempts /\ pc /= "done") =>
             /\ gw'.attempts = gw.attempts + 1
             /\ genai_key' = API_KEYS[gw'.attempts]
             /\ gw.attempts > 0 => gw.outcome.kind \in {"error", "empty"}
       /\ (pc = "waiting" /\ pc' /= "waiting" /\ gw.outcome.kind = "ok") =>
             /\ pc' = "returned"
             /\ gw'.result = [kind |-> "return", text |-> Strip(gw.outcome.text)]
       /\ (pc = "waiting" /\ pc' /= "waiting" /\ gw.outcome.kind /= "ok") =>
             \/ pc' = "gateway" /\ gw.attempts < Len(API_KEYS)
             \/ pc' = "returned" /\ gw.attempts = Len(API_KEYS)
       /\ pc = "returned" => gw'.attempts = gw.attempts]_vars

\* The second credential answered after the first failed, and the third
\* was not tried.
SecondCredentialAnswered ==
    /\ pc = "returned"
    /\ Len(API_KEYS) = 3
    /\ gw.attempts = 2
    /\ gw.failed = 1
    /\ gw.outcome.kind = "ok"
    /\ genai_key = API_KEYS[2]

(***************************************************************************)
(* The search and the log of a chat request.                               *)
(***************************************************************************)
\* C21: in every chat request that is answered, the query runs and
\* search_performed is true exactly when the merged filters are not empty;
\* with empty merged filters there are no records and no result count, and
\* after a search the result count is the number of records returned.
SearchRunsExactlyOnFilters ==
    (pc = "done" /\ response.status = 200) =>
       /\ frame.filters = MergeFilters(request.filters, frame.detected_filters)
       /\ frame.search_performed = (DOMAIN frame.filters /= {})
       /\ response.search_performed = frame.search_performed
       /\ DOMAIN frame.filters = {} =>
             /\ frame.results = None
             /\ response.propiedades = None
             /\ response.results_count = None
       /\ DOMAIN frame.filters /= {} =>
             /\ frame.results /= None
             /\ response.propiedades = frame.results
             /\ response.results_count = Some(Len(response.propiedades[1]))

\* A request with filters was answered with the records of its search.
SearchCounted ==
    /\ pc = "done"
    /\ response.status = 200
    /\ DOMAIN frame.filters /= {}
    /\ Len(response.propiedades[1]) > 0
    /\ response.results_count = Some(Len(response.propiedades[1]))

\* C22: a chat request that is answered, the welcome of a first greeting
\* included, appends one turn when the log store takes it: the row holds the
\* request's channel and message, the reply text as returned, the
\* search_performed flag and the number of records (0 without records); the
\* turns the log held stay as they were, and no other step changes the log.
TurnAppendedOnReply ==
    [][/\ (pc /= "done" /\ pc' = "done" /\ response'.status = 200 /\ response'.log_ok) =>
             logs' = Append(logs,
                            [channel          |-> request'.channel,
                             user_message     |-> frame'.user_text,
                             bot_response     |-> response'.response,
                             search_performed |-> response'.search_performed,
                             results_count    |-> IF response'.propiedades = None THEN 0
                                                  ELSE Len(response'.propiedades[1])])
       /\ logs' /= logs =>
             /\ pc /= "done" /\ pc' = "done"
             /\ Len(logs') = Len(logs) + 1
             /\ SubSeq(logs', 1, Len(logs)) = logs]_vars

\* The welcome was logged after the turn of an earlier run.
WelcomeLoggedAfterEarlierTurn ==
    /\ pc = "done"
    /\ response.status = 200
    /\ response.response = WelcomeTemplate
    /\ Len(logs) = 2
    /\ logs[1] = PersistedTurn
    /\ logs[2].bot_response = WelcomeTemplate
    /\ logs[2].channel = request.channel

(***************************************************************************)
(* The lines the shaper drops and the text it ends with.                   *)
(***************************************************************************)
\* The lines of a text at the positions outside dropped, in order.
Pick(lines, dropped) ==
    LET idx    == (1..Len(lines)) \ dropped
        Nth(k) == CHOOSE i \in idx : Cardinality({j \in idx : j < i}) = k - 1
    IN  [k \in 1..Cardinality(idx) |-> lines[Nth(k)]]

\* The positions up to and including the first blank line after position s.
BlockFrom(lines, s) ==
    {i \in s..Len(lines) : \A b \in (s + 1)..(i - 1) : Strip(lines[b]) /= <<>>}

\* The lines C23 has dropped: the blocks that start at a line beginning with
\* a digit and '.' or ')' and at a line holding a property emoji.
StatedDropped(lines) ==
    UNION {BlockFrom(lines, s) : s \in {i \in 1..Len(lines) : IsListingLine(lines[i])}}

\* A line whose first character, blanks aside, is a digit and that holds
\* '.', ')', the house or the pin somewhere.
IsNumberedLine(line) ==
    /\ Strip(line) /= <<>>
    /\ IsDigit(Strip(line)[1])
    /\ \E c \in {".", ")", "U+1F3E0", "U+1F4CD"} : Contains(<<c>>, line)

\* The blocks that start at a numbered line, and every line that holds a
\* property emoji.
NumberedBlocksAndEmojiLines(lines) ==
    UNION {BlockFrom(lines, s) : s \in {i \in 1..Len(lines) : IsNumberedLine(lines[i])}}
    \cup {i \in 1..Len(lines) : \E e \in 1..Len(ListingEmoji) : Contains(ListingEmoji[e], lines[i])}

\* C23, as stated: a line that starts with a digit followed by '.' or ')',
\* or that holds a property emoji, is dropped together with every line after
\* it up to and including the next blank line or the end of the text; the
\* other lines are kept.
EmojiLineStartsBlock ==
    shaper.reply /= None =>
       CleanLines(Split(shaper.answer), 1, FALSE)
          = Pick(Split(shaper.answer), StatedDropped(Split(shaper.answer)))

\* C23, amended: a line whose first character is a digit and that holds
\* '.', ')', the house or the pin anywhere is dropped together with every
\* line after it up to and including the next blank line or the end of the
\* text; a line holding a property emoji is dropped alone, and the line
\* after it is kept unless a rule drops it; every other line is kept, and
\* the reply is made of the kept lines.
NumberedLineStartsBlock ==
    shaper.reply /= None =>
       \E kept \in {Pick(Split(shaper.answer),
                          NumberedBlocksAndEmojiLines(Split(shaper.answer)))} :
          /\ CleanLines(Split(shaper.answer), 1, FALSE) = kept
          /\ shaper.reply[1] = Finalize(Strip(Join(kept)), shaper.results_count)

\* The line after an emoji line is in the reply.
LineAfterEmojiKept ==
    /\ shaper.answer = Join(<<L_price, Ex_Plain>>)
    /\ shaper.reply /= None
    /\ Contains(Ex_Plain, shaper.reply[1])
    /\ ~Contains(L_price, shaper.reply[1])

\* The text the word stands in, whatever the case of its letters.
Mentions(word, text) == Contains(Lower(word), Lower(text))

\* C24: of the text that survives the dropping of lines, trimmed, the
\* shaper makes the synthesized confirmation for len(records) when it is
\* empty or shorter than 20 characters; else the text followed by the
\* synthesized suffix when it mentions neither "propiedad" nor "encontré",
\* in any case of letters; else the text unchanged.
FinalizedAsStated ==
    shaper.reply /= None =>
       \E surviving \in {Strip(Join(CleanLines(Split(shaper.answer), 1, FALSE)))} :
          shaper.reply[1] =
             IF Len(surviving) < 20
             THEN SynthConfirmation(shaper.results_count)
             ELSE IF /\ ~Mentions(<<"p","r","o","p","i","e","d","a","d">>, surviving)
                     /\ ~Mentions(<<"e","n","c","o","n","t","r","U+00E9">>, surviving)
             THEN surviving \o SynthAppend(shaper.results_count)
             ELSE surviving

\* A text that mentions "Encontré" with a capital came out unchanged.
CapitalMentionKept ==
    /\ shaper.answer = Ex_Upper
    /\ shaper.reply = Some(Ex_Upper)

\* The seven attributes a stored record must hold.
SevenAttributes ==
    {"titulo", "barrio", "precio", "ambientes", "metros_cuadrados", "operacion", "tipo"}

\* A feed record holds the seven attributes, none of them null.
HoldsSeven(prop) ==
    /\ SevenAttributes \subseteq DOMAIN prop
    /\ \A a \in {"titulo", "barrio", "operacion", "tipo"} : prop[a] /= Null

\* The table holds a row for the feed record.
Stored(table, prop) == \E r \in 1..Len(table) : table[r].id_temporal = prop["id_temporal"]

\* initialize_databases drops the table and loads the feed: no row of the
\* table is a rental.
ReloadDecided(table) ==
    \A r \in 1..Len(table) : table[r].operacion /= <<"a","l","q","u","i","l","e","r">>

\* The step is a run of initialize_databases that loads the feed.
BulkLoadStep == lookup'.starts = lookup.starts + 1 /\ ReloadDecided(properties)

\* C25: after a bulk load every row of the catalog holds title,
\* neighborhood, price, room count, area, operation and type, none null; a
\* feed record missing one of the seven is not stored, and every feed record
\* that holds the seven is stored whatever the other records of the load are.
LoadKeepsExactlyTheCompleteRecords ==
    [][ BulkLoadStep =>
           /\ \A r \in 1..Len(properties') :
                 \A a \in {"titulo", "barrio", "operacion", "tipo"} : properties'[r][a] /= Null
           /\ \A k \in 1..Len(feed) : Stored(properties', feed[k]) <=> HoldsSeven(feed[k]) ]_vars

\* What the code does keep of this: a row of the catalog never holds a null
\* among the seven, and a feed record missing one of them is never stored.
LoadStoresNoIncompleteRecord ==
    [][ BulkLoadStep =>
           /\ \A r \in 1..Len(properties') :
                 \A a \in {"titulo", "barrio", "operacion", "tipo"} : properties'[r][a] /= Null
           /\ \A k \in 1..Len(feed) : Stored(properties', feed[k]) => HoldsSeven(feed[k]) ]_vars

\* The rows of a channel among the first n of table logs, and the place of
\* one of them counted from the most recently appended.
TurnsOf(canal, n) == {i \in 1..n : logs[i].channel = canal}
Recency(i, idx)   == Cardinality({j \in idx : j > i}) + 1

\* C26: get_historial_canal(channel, limit) returns the user and bot texts
\* of the min(limit, turns of the channel) most recently appended turns of
\* that channel, the most recent first, and of no other turn;
\* get_last_bot_response(channel) returns the bot text of the most recently
\* appended turn of the channel, or nothing when the channel has no turn.
ReadersReturnRecentTurnsFirst ==
    LET idx == TurnsOf(history.canal, history.seen)
        n   == Min({history.limit, Cardinality(idx)})
    IN  /\ (history.op = "historial" /\ history.ok) =>
              /\ Len(history.result) = 2 * n
              /\ \A i \in idx :
                    Recency(i, idx) <= n =>
                       /\ history.result[2 * Recency(i, idx) - 1]
                             = UsuarioPrefix \o logs[i].user_message
                       /\ history.result[2 * Recency(i, idx)]
                             = BotPrefix \o logs[i].bot_response
        /\ (history.op = "last" /\ history.ok) =>
              IF idx = {} THEN history.result = None
              ELSE \E i \in idx : /\ \A j \in idx : j <= i
                                  /\ history.result = Some(logs[i].bot_response)

\* A read with limit 2 of a channel with three turns, a turn of the other
\* channel among them, returned the two latest.
TwoLatestOfThreeRead ==
    /\ history.op = "historial"
    /\ history.ok
    /\ history.limit = 2
    /\ history.seen = 4
    /\ Cardinality(TurnsOf(history.canal, 4)) = 3
    /\ logs[3].channel /= history.canal
    /\ logs[4].user_message /= logs[2].user_message
    /\ Len(history.result) = 4

\* The entries of the type vocabulary that stand as a word in the text.
TypeWords(text_lower) ==
    {k \in 1..Len(TIPOS) :
        \E i \in 1..Len(text_lower) :
           /\ HasAt(text_lower, i, Lower(TIPOS[k]))
           /\ i = 1 \/ text_lower[i - 1] = " "
           /\ i + Len(TIPOS[k]) > Len(text_lower) \/ text_lower[i + Len(TIPOS[k])] = " "}

\* C27: for every entry t of TIPOS, detect_filters on a text whose only type
\* word is t returns tipo = t.
EveryTypeIsDetectable ==
    extraction.filters /= None =>
       \A k \in 1..Len(TIPOS) :
          TypeWords(Lower(extraction.text)) = {k} =>
             /\ "tipo" \in DOMAIN extraction.filters[1]
             /\ extraction.filters[1]["tipo"] = TIPOS[k]

\* C28: when several calls of call_gemini_with_rotation run at once, the
\* i-th completion call of each call is made with the i-th credential of
\* API_KEYS: the credential a call configured is the one the process holds
\* when that call sends.
EachAttemptUsesItsCredential ==
    \A w \in 1..MaxWorkers :
       \A k \in 1..Len(workers[w].used) : workers[w].used[k] = API_KEYS[k]

\* C29: a submission the public contact endpoint accepts, under a name no
\* stored record holds, is stored as a record of its own, under an id no
\* earlier submission was stored under, and leaves the records of the
\* earlier submissions as they were, also within one clock millisecond.
PublicSubmissionsStayDistinct ==
    [][ ( /\ clock' = clock
          /\ submission' /= submission
          /\ submission'.endpoint = "guardar_contacto"
          /\ submission'.stored
          /\ \A old \in contactos : old.nombre /= submission'.body["nombre"] )
        => /\ \A old \in contactos :
                 /\ old \in contactos'
                 /\ submission'.id /= Some(old.timestamp)
           /\ \E c \in contactos' \ contactos :
                 /\ submission'.id = Some(c.timestamp)
                 /\ c.nombre = submission'.body["nombre"] ]_vars

\* Within one millisecond the endpoint has accepted a submission under
\* another name than the record it found under the generated id and now
\* holds no record of the earlier name.
SecondSubmissionSameMillisecond ==
    /\ submission.endpoint = "guardar_contacto"
    /\ submission.stored
    /\ submission.previous = Some(N_ana)
    /\ submission.body["nombre"] = N_bea
    /\ submission.id = Some(IntToText(clock))
    /\ \A c \in contactos : c.nombre /= N_ana

\* C30: a reload is all-or-nothing: when initialize_databases reloads from
\* a feed that cannot be loaded or yields no valid record, query_properties
\* returns afterwards the records it returned before; the catalog changes
\* only when a feed was loaded.
ReloadIsAllOrNothing ==
    [][ /\ (BulkLoadStep /\ cargar_propiedades_desde_json(feed) = <<>>) =>
              query_properties(EmptyDict, properties', TRUE).rows
                 = query_properties(EmptyDict, properties, TRUE).rows
        /\ properties' /= properties => cargar_propiedades_desde_json(feed) /= <<>> ]_vars
====
